---- MODULE Spec2Model ----
(***************************************************************************)
(* Mailuminati Guardian: the analysis / learning / matching engine.        *)
(*                                                                         *)
(* The key/value store is one function from Redis key strings to entries   *)
(* [v, ttl]; the handlers are translated command by command.  Time passes  *)
(* in ticks of TickMinutes minutes: a key set with a duration d lives      *)
(* Ticks(d) ticks, a key without expiry has ttl = NoTTL.                   *)
(*                                                                         *)
(* TLSH itself (github.com/glaslos/tlsh) is an external library: digests   *)
(* are 72-character strings, their distance is the table Diff.  SHA-1 is   *)
(* modelled as an injective tagging of the message-id.                     *)
(***************************************************************************)
EXTENDS Integers, Sequences, FiniteSets, TLC

VARIABLES
    rdb,      \* the Redis store: key string -> [v |-> value, ttl |-> ticks left]
    scans,    \* background storeScanResult goroutines not yet run
    last,     \* the response of the request served by the last step (NoResp otherwise)
    hist,     \* observer: the reports processed since start (capped) and the
              \* ticks since the latest one
    procs,    \* in-flight /report requests served step by step (SpecConc)
    tally,    \* observer of SpecConc: gate passes per (message-id, type) and
              \* score adjustments decided per digest
    msgs,     \* the mail this run feeds to the engine (fixed at start)
    stats     \* the six process-local counters, the position of the stats worker,
              \* and its observer: increments made and values acknowledged

vars == <<rdb, scans, last, hist, procs, tally, msgs, stats>>

-----------------------------------------------------------------------------
(* Bounds of the model *)

TickMinutes == 7200     \* one tick of model time, in minutes (5 days)
MaxScore    == 2        \* |lg_s:<d>| stays within this bound (guard of /report)
MaxEvents   == 2        \* length of the recorded report history
MaxPending  == 1        \* storeScanResult goroutines in flight at once
MaxSeq      == 1        \* highest sync sequence number the oracle hands out
NProcs      == 2        \* concurrent /report requests (SpecConc)
MaxQueued   == 2        \* storeScanResult goroutines in flight at once (SpecScan)
MaxIncr     == 3        \* increments of the statistics counters in a run (SpecStats)

-----------------------------------------------------------------------------
(* Engine configuration: constants and tunables *)

FragKeyPrefix         == "mi_f:"
LocalFragPrefix       == "lg_f:"
OracleCacheFragPrefix == "oc_f:"
LocalScorePrefix      == "lg_s:"
MetaNodeID            == "mi_meta:id"
MetaVer               == "mi_meta:v"
DefaultLocalRetention == 15

spamWeight == 1
hamWeight  == 2

thresholdNormalized == 70
thresholdRaw        == 60
thresholdURL        == 50
thresholdSubject    == 55
thresholdAttachment == 45
softSpamDelta       == 20

\* durations, in minutes
localRetentionDuration == DefaultLocalRetention * 24 * 60
ReportKeyTTL           == 24 * 60
ScanResultTTL          == 7 * 24 * 60
CacheSpamTTL           == 1 * 60
CacheOtherTTL          == 5 * 1

NoTTL == 0 - 1
Ticks(d) == IF d = 0 THEN NoTTL ELSE (d + TickMinutes - 1) \div TickMinutes

Nil == "<nil>"

-----------------------------------------------------------------------------
(* Digests and messages fed to the engine *)

RECURSIVE Rep(_, _)
Rep(s, n) == IF n = 0 THEN "" ELSE s \o Rep(s, n - 1)

\* 72 characters: "T1", six more header characters, a 64-character body.
DA == "T1A0A0A0" \o Rep("AAA", 21) \o "A"
\* shares exactly the bands 1..4 with DA
DB == "T1B0B0B0" \o Rep("AAA", 5) \o Rep("BBB", 16) \o "B"
\* shares exactly the bands 9..11 with DA
DC == "T1C0C0C0" \o Rep("CCC", 8) \o Rep("AAA", 4) \o Rep("CCC", 9) \o "C"
\* shares exactly the bands 17..20 with DA
DE == "T1E0E0E0" \o Rep("EEE", 16) \o Rep("AAA", 5) \o "E"

\* shares exactly the band 1 with DC, none with DA
DF == "T1D0D0D0" \o Rep("CCC", 2) \o Rep("DDD", 19) \o "D"

Digests == {DA, DB, DC, DE, DF}

\* digests with the body of DA (hence all its bands) and another header: the
\* header alone puts Near(n) at distance n from DA
Pad4(n) == IF n < 10 THEN "000" \o ToString(n)
           ELSE IF n < 100 THEN "00" \o ToString(n) ELSE "0" \o ToString(n)
Near(n) == "T1F0" \o Pad4(n) \o SubSeq(DA, 9, 72)

\* the distances on either side of a threshold T and of its soft threshold
Boundary(T) == {T, T + 1, T + softSpamDelta, T + softSpamDelta + 1}
NearDists ==
    UNION {Boundary(T) : T \in {thresholdNormalized, thresholdRaw, thresholdURL,
                                  thresholdSubject, thresholdAttachment}}
NearDigests == {Near(n) : n \in NearDists}

\* tlsh.ParseStringToTlsh: accepts exactly 70 hex characters
TrimPrefixT1(d) == IF Len(d) >= 2 /\ SubSeq(d, 1, 2) = "T1" THEN SubSeq(d, 3, Len(d)) ELSE d
ParseOk(d) == Len(TrimPrefixT1(d)) = 70

\* tlsh Diff: symmetric, 0 on equal digests
DiffTable(a, b) ==
    CASE {a, b} = {DA, DB} -> 30
      [] {a, b} = {DA, DC} -> 40
      [] {a, b} = {DA, DE} -> 80
      [] \E n \in NearDists : {a, b} = {DA, Near(n)} ->
            CHOOSE n \in NearDists : {a, b} = {DA, Near(n)}
      [] OTHER -> 200
Diff(a, b) == IF a = b THEN 0 ELSE DiffTable(a, b)

SigTypes == {"normalized", "raw", "url", "subject", "attachment"}

TS(h, t) == [Hash |-> h, Type |-> t]

\* the signature extraction: the parts of a message that yield a digest, in
\* the order the handler computes them (one attachment at most here)
ExtractionOrder == <<"normalized", "raw", "url", "subject", "attachment">>
RECURSIVE ExtractFrom(_, _)
ExtractFrom(parts, i) ==
    IF i > Len(ExtractionOrder) THEN <<>>
    ELSE (IF ExtractionOrder[i] \in DOMAIN parts
          THEN <<TS(parts[ExtractionOrder[i]], ExtractionOrder[i])>> ELSE <<>>)
         \o ExtractFrom(parts, i + 1)
Extract(parts) == ExtractFrom(parts, 1)
Part(t, d) == [x \in {t} |-> d]

\* a parsed MIME envelope: Message-ID, the typed signatures the extractor
\* yields, the From header, and who the sender is (address and domain)
Msg(id, sigs) ==
    [id |-> id, sigs |-> sigs, from |-> "bob@other.net",
     addr |-> "bob@other.net", dom |-> "other.net"]
MsgFrom(id, sigs, from) ==
    [id |-> id, sigs |-> sigs, from |-> from, addr |-> "a@example.com", dom |-> "example.com"]
M1 == Msg("<m1@x>", <<TS(DA, "normalized")>>)
M2 == Msg("<m2@x>", Extract(Part("raw", DB) @@ Part("normalized", DA)))
M3 == Msg("<m3@x>", Extract(Part("raw", DA) @@ Part("normalized", DE)))
M4 == Msg("<m4@x>", <<TS(DB, "raw")>>)
M5 == Msg("<m5@x>", <<TS(DC, "normalized")>>)
M6 == Msg("<m6@x>", <<TS(DE, "normalized")>>)
M8 == Msg("<m8@x>", Extract(Part("attachment", DC) @@ Part("url", DE)))
M9 == Msg("<m9@x>", <<TS(DF, "normalized")>>)
M11 == Msg("<m11@x>", Extract(Part("attachment", DC) @@ Part("normalized", DE)))
MW1 == MsgFrom("<w1@x>", <<TS(DA, "normalized")>>, "Alice <A@Example.com>")
MW2 == MsgFrom("<w2@x>", <<TS(DA, "normalized")>>, "a@example.com")
FromHeaders == {M1.from, MW1.from, MW2.from}

\* a mail too short to yield a signature, a mail without Message-ID, two
\* different mails carrying the same Message-ID
M0  == Msg("<m0@x>", <<>>)
MX  == Msg("", <<TS(DA, "normalized")>>)
MD1 == Msg("<dup@x>", <<TS(DA, "normalized")>>)
MD2 == Msg("<dup@x>", Extract(Part("raw", DC) @@ Part("normalized", DB)))

\* a digest cut short, as a scan record written by another hand may hold
DT == SubSeq(DA, 1, 40)
M10 == Msg("<m10@x>", <<TS(DB, "normalized")>>)

\* the workloads of one message
Solo == {{M1}, {M2}, {M3}}

MsgIds == {m.id : m \in msgs}
ReportTypes == {"spam", "ham"}

Sha1(s) == "sha1(" \o s \o ")"

Hashes(m) == [i \in 1..Len(m.sigs) |-> m.sigs[i].Hash]

-----------------------------------------------------------------------------
(* Redis commands, as the go-redis client issues them *)

Exists(db, k) == k \in DOMAIN db
Get(db, k) == IF k \in DOMAIN db THEN db[k].v ELSE Nil
GetInt(db, k) == IF k \in DOMAIN db THEN db[k].v ELSE 0
Put(db, k, e) == [x \in DOMAIN db \cup {k} |-> IF x = k THEN e ELSE db[x]]
Set(db, k, v, d) == Put(db, k, [v |-> v, ttl |-> Ticks(d)])
Del(db, k) == [x \in DOMAIN db \ {k} |-> db[x]]
Expire(db, k, d) == IF k \in DOMAIN db THEN Put(db, k, [v |-> db[k].v, ttl |-> Ticks(d)]) ELSE db
IncrBy(db, k, n) ==
    IF k \in DOMAIN db THEN Put(db, k, [v |-> db[k].v + n, ttl |-> db[k].ttl])
    ELSE Put(db, k, [v |-> n, ttl |-> NoTTL])
DecrBy(db, k, n) == IncrBy(db, k, 0 - n)
SAdd(db, k, m) ==
    IF k \in DOMAIN db THEN Put(db, k, [v |-> db[k].v \cup {m}, ttl |-> db[k].ttl])
    ELSE Put(db, k, [v |-> {m}, ttl |-> NoTTL])
SMembers(db, k) == IF k \in DOMAIN db THEN db[k].v ELSE {}
SIsMember(db, k, m) == m \in SMembers(db, k)
SRem(db, k, m) ==
    IF k \notin DOMAIN db THEN db
    ELSE IF db[k].v \ {m} = {} THEN Del(db, k)
    ELSE Put(db, k, [v |-> db[k].v \ {m}, ttl |-> db[k].ttl])

-----------------------------------------------------------------------------
(* Fingerprint engine *)

headerLen == 8
bodyLen   == 64
window    == 6
stride    == 3

RECURSIVE BandLoop(_, _, _)
BandLoop(core, pos, idx) ==
    IF pos + window <= bodyLen
    THEN <<ToString(idx) \o ":" \o SubSeq(core, pos + 1, pos + window)>>
             \o BandLoop(core, pos + stride, idx + 1)
    ELSE <<>>

\* a variant that wants more than header and body
extractBands_6_3_Over(sig) ==
    IF Len(sig) <= headerLen + bodyLen THEN <<>>
    ELSE BandLoop(SubSeq(sig, headerLen + 1, headerLen + bodyLen), 0, 1)

extractBands_6_3(sig) ==
    IF Len(sig) < headerLen + bodyLen THEN <<>>
    ELSE BandLoop(SubSeq(sig, headerLen + 1, headerLen + bodyLen), 0, 1)

Range(s) == {s[i] : i \in DOMAIN s}

\* the bands of the digests in play, computed once
BandSeqOf == [d \in Digests \cup NearDigests |-> extractBands_6_3(d)]
BandSeq(d) == IF d \in DOMAIN BandSeqOf THEN BandSeqOf[d] ELSE extractBands_6_3(d)
Bands(d) == Range(BandSeq(d))

\* a variant that gives up at the first candidate that does not parse
computeDistanceBatch_Strict(ref, digests) ==
    IF ~ParseOk(ref) \/ \E x \in digests : ~ParseOk(x) THEN [err |-> TRUE, dist |-> <<>>]
    ELSE [err |-> FALSE, dist |-> [d \in digests |-> Diff(ref, d)]]

\* computeDistanceBatch: err when the reference does not parse; malformed
\* candidates are skipped
computeDistanceBatch(ref, digests) ==
    IF ~ParseOk(ref) THEN [err |-> TRUE, dist |-> <<>>]
    ELSE [err |-> FALSE,
          dist |-> [d \in {x \in digests : ParseOk(x)} |-> Diff(ref, d)]]

\* a variant with one threshold for every type
getThresholdForType_Flat(sigType) == thresholdNormalized

getThresholdForType(sigType) ==
    CASE sigType = "normalized" -> thresholdNormalized
      [] sigType = "raw"        -> thresholdRaw
      [] sigType = "url"        -> thresholdURL
      [] sigType = "subject"    -> thresholdSubject
      [] sigType = "attachment" -> thresholdAttachment
      [] OTHER -> 70

\* getConfidenceForMatch: a float64 held as the fraction num/den; with
\* distance < threshold, 1.0 - distance/threshold*0.5 = (2t - d) / 2t
Frac(n, d) == [num |-> n, den |-> d]
FracLess(a, b) == a.num * b.den < b.num * a.den
FracEq(a, b) == a.num * b.den = b.num * a.den
getConfidenceForMatch(distance, threshold) ==
    IF distance >= threshold THEN Frac(0, 1)
    ELSE LET confidence == Frac(2 * threshold - distance, 2 * threshold)
         IN IF FracLess(confidence, Frac(1, 2)) THEN Frac(1, 2) ELSE confidence

-----------------------------------------------------------------------------
(* Oracle client: /analyze *)

Result(a, l, p, d, t) ==
    [Action |-> a, Label |-> l, ProximityMatch |-> p, Distance |-> d, MatchType |-> t]

\* what the oracle's /analyze may answer: a transport error or timeout, or a
\* body that decodes to a result ("" when the body holds no result)
OracleVerdicts ==
    { Result("spam", "oracle_spam", FALSE, 0, ""),
      Result("allow", "", FALSE, 0, ""),
      Result("", "", FALSE, 0, "") }
\* the HTTP status of a response that arrived (0: none arrived)
OracleStatuses == {200, 500}
OracleAnalyzeAnswers ==
    {[err |-> TRUE, code |-> 0, result |-> Result("", "", FALSE, 0, "")]}
        \cup {[err |-> FALSE, code |-> c, result |-> v] :
                 c \in OracleStatuses, v \in OracleVerdicts}

OracleCacheKey(sig) == "mi:oracle_cache:" \o sig

\* pipeline: SADD key member, EXPIRE key d, for every band (the keys are
\* distinct, so the commands of different bands commute)
SAddExpireBands(db, prefix, bands, member, d) ==
    LET keys == {prefix \o bands[i] : i \in DOMAIN bands}
    IN [k \in DOMAIN db \cup keys |->
           IF k \in keys THEN Expire(SAdd(db, k, member), k, d)[k] ELSE db[k]]

\* a variant that keeps the fallback verdict like any other answer
OracleFailed_Cached(db, sig) ==
    [db  |-> Set(db, OracleCacheKey(sig), Result("allow", "", TRUE, 0, ""), CacheOtherTTL),
     res |-> Result("allow", "", TRUE, 0, "")]

\* the POST failed (network error, timeout): non-spam with proximity, no cache
OracleFailed(db, sig) == [db |-> db, res |-> Result("allow", "", TRUE, 0, "")]

\* the store and the result after one oracle answer
OracleAnswered(db, sig, a) ==
    IF a.err THEN OracleFailed(db, sig)
    ELSE IF a.result.Action # ""
    THEN IF a.result.Action = "spam"
         THEN [db |-> SAddExpireBands(Set(db, OracleCacheKey(sig), a.result, CacheSpamTTL),
                                      OracleCacheFragPrefix, BandSeq(sig), sig,
                                      CacheSpamTTL),
               res |-> a.result]
         ELSE [db |-> Set(db, OracleCacheKey(sig), a.result, CacheOtherTTL), res |-> a.result]
    ELSE [db |-> db, res |-> Result("allow", "", TRUE, 0, "")]

\* callOracleDecision: the possible [db, res, calls], calls being the POSTs
\* made to the oracle's /analyze, whether each one failed, the status of the
\* response (which the client does not look at) and the action it carried
callOracleDecision(db, sig) ==
    IF Exists(db, OracleCacheKey(sig))
    THEN {[db |-> db, res |-> Get(db, OracleCacheKey(sig)), calls |-> <<>>]}
    ELSE {[db |-> OracleAnswered(db, sig, a).db, res |-> OracleAnswered(db, sig, a).res,
           calls |-> <<[sig |-> sig, err |-> a.err, code |-> a.code,
                        answer |-> a.result.Action]>>] :
              a \in OracleAnalyzeAnswers}

-----------------------------------------------------------------------------
(* Matcher: the collision search of analyzeHandler *)

\* the keys prefix+band that exist, over the bands of sig (pipelined EXISTS)
MatchedKeys(db, prefix, sig) == {prefix \o b : b \in Bands(sig)} \cap DOMAIN db

\* a variant that is content with three band keys
EnoughBands_Three(keys) == Cardinality(keys) >= 3

\* the band threshold of the local and oracle-cache lookups
EnoughBands(keys) == Cardinality(keys) >= 4

\* pipelined SMEMBERS over the keys, deduplicated
Members(db, keys) == UNION {SMembers(db, k) : k \in keys}

\* pipeline: EXPIRE key d for every key
ExpireAll(db, keys, d) ==
    [k \in DOMAIN db |-> IF k \in keys THEN Expire(db, k, d)[k] ELSE db[k]]

\* the outcome of the layers for one signature: the store, finalResult, how the
\* loop goes on ("end": endAnalysis or break; "next": nextSignature), the POSTs
\* made to the oracle, and the layers gone through, in order
Out(db, fr, ctl, calls, layers) ==
    [db |-> db, fr |-> fr, ctl |-> ctl, calls |-> calls, layers |-> layers]

\* the same outcomes, reached through layer n first
Via(n, outs) == {[o EXCEPT !.layers = <<n>> \o @] : o \in outs}

\* a variant that asks the oracle whatever the synced index holds
Layer4_Always(db, fr, ts) ==
    { IF o.res.Action = "spam"
      THEN Out(o.db, o.res, "end", o.calls, <<4>>)
      ELSE Out(o.db, [fr EXCEPT !.ProximityMatch = TRUE], "next", o.calls, <<4>>)
      : o \in callOracleDecision(db, ts.Hash) }

\* Step 3: band collision against the synced oracle index, then the oracle
Layer4(db, fr, ts) ==
    IF Cardinality(MatchedKeys(db, FragKeyPrefix, ts.Hash)) >= 4
    THEN { IF o.res.Action = "spam"
           THEN Out(o.db, o.res, "end", o.calls, <<4>>)
           ELSE Out(o.db, [fr EXCEPT !.ProximityMatch = TRUE], "next", o.calls, <<4>>)
           : o \in callOracleDecision(db, ts.Hash) }
    ELSE {Out(db, fr, "next", <<>>, <<4>>)}

\* a variant that takes every candidate, whatever its score
Positive_Any(db, h) == TRUE

\* the score check of a candidate: scoreVal > 0 (an absent key reads as 0)
Positive(db, h) == GetInt(db, LocalScorePrefix \o h) > 0

\* a variant that goes on to the oracle step when no candidate gave spam
Layer3_Through(db, fr, ts) ==
    LET keys == MatchedKeys(db, LocalFragPrefix, ts.Hash)
        db1  == ExpireAll(db, keys, localRetentionDuration)
        r    == computeDistanceBatch(ts.Hash, Members(db1, keys))
        hard == {h \in DOMAIN r.dist :
                    r.dist[h] <= getThresholdForType(ts.Type) /\ Positive(db1, h)}
    IN IF EnoughBands(keys) /\ hard # {}
       THEN {Out(db1, Result("spam", "local_spam", TRUE, r.dist[h], ts.Type),
                 "next", <<>>, <<3>>) : h \in hard}
       ELSE Via(3, Layer4(db, fr, ts))

\* a variant in which the first candidate met in range decides, hard or soft
Layer3_FirstMet(db, fr, ts) ==
    LET T     == getThresholdForType(ts.Type)
        keys  == MatchedKeys(db, LocalFragPrefix, ts.Hash)
        db1   == ExpireAll(db, keys, localRetentionDuration)
        r     == computeDistanceBatch(ts.Hash, Members(db1, keys))
        inrng == {h \in DOMAIN r.dist : r.dist[h] <= T + softSpamDelta /\ Positive(db1, h)}
    IN IF EnoughBands(keys)
       THEN IF inrng # {}
            THEN {IF r.dist[h] <= T
                  THEN Out(db1, Result("spam", "local_spam", TRUE, r.dist[h], ts.Type),
                           "next", <<>>, <<3>>)
                  ELSE Out(db1, Result("soft_spam", "local_soft", TRUE, r.dist[h], ts.Type),
                           "next", <<>>, <<3>>) : h \in inrng}
            ELSE {Out(db1, [fr EXCEPT !.ProximityMatch = TRUE], "next", <<>>, <<3>>)}
       ELSE Via(3, Layer4(db, fr, ts))

\* a variant in which every signature's lookup starts from a verdict of its own
Layer3_Fresh(db, fr, ts) ==
    LET sig   == ts.Hash
        T     == getThresholdForType(ts.Type)
        S     == T + softSpamDelta
        fresh == Result("allow", "", FALSE, 0, "")
        keys  == MatchedKeys(db, LocalFragPrefix, sig)
        db1   == ExpireAll(db, keys, localRetentionDuration)
        cands == Members(db1, keys)
        r     == computeDistanceBatch(sig, cands)
        hard  == {h \in DOMAIN r.dist : r.dist[h] <= T /\ Positive(db1, h)}
        soft  == {h \in DOMAIN r.dist : r.dist[h] > T /\ r.dist[h] <= S /\ Positive(db1, h)}
    IN IF EnoughBands(keys)
       THEN IF cands # {} /\ ~r.err
            THEN IF hard # {}
                 THEN {Out(db1, Result("spam", "local_spam", TRUE, r.dist[h], ts.Type),
                           "next", <<>>, <<3>>) : h \in hard}
                 ELSE IF soft # {}
                 THEN {Out(db1, Result("soft_spam", "local_soft", TRUE, r.dist[h], ts.Type),
                           "next", <<>>, <<3>>) : h \in soft}
                 ELSE {Out(db1, [fresh EXCEPT !.ProximityMatch = TRUE], "next", <<>>, <<3>>)}
            ELSE {Out(db1, [fresh EXCEPT !.ProximityMatch = TRUE], "next", <<>>, <<3>>)}
       ELSE Via(3, Layer4(db, fresh, ts))

\* a variant that also refreshes the scores of the candidates it read
Layer3_Renew(db, fr, ts) ==
    LET sig   == ts.Hash
        T     == getThresholdForType(ts.Type)
        S     == T + softSpamDelta
        keys  == MatchedKeys(db, LocalFragPrefix, sig)
        db1   == ExpireAll(db, keys \cup {LocalScorePrefix \o h : h \in Members(db, keys)},
                           localRetentionDuration)
        cands == Members(db1, keys)
        r     == computeDistanceBatch(sig, cands)
        hard  == {h \in DOMAIN r.dist : r.dist[h] <= T /\ Positive(db1, h)}
        soft  == {h \in DOMAIN r.dist : r.dist[h] > T /\ r.dist[h] <= S /\ Positive(db1, h)}
    IN IF EnoughBands(keys)
       THEN IF cands # {} /\ ~r.err
            THEN IF hard # {}
                 THEN {Out(db1, Result("spam", "local_spam", TRUE, r.dist[h], ts.Type),
                           "next", <<>>, <<3>>) : h \in hard}
                 ELSE IF soft # {} /\ fr.Action # "spam"
                 THEN {Out(db1, Result("soft_spam", "local_soft", TRUE, r.dist[h], ts.Type),
                           "next", <<>>, <<3>>) : h \in soft}
                 ELSE {Out(db1, [fr EXCEPT !.ProximityMatch = TRUE], "next", <<>>, <<3>>)}
            ELSE {Out(db1, [fr EXCEPT !.ProximityMatch = TRUE], "next", <<>>, <<3>>)}
       ELSE Via(3, Layer4(db, fr, ts))

\* Step 2: local learning lookup.  The candidates are visited in Go map order:
\* any candidate within the threshold with a positive score may be the first
\* one met, any soft candidate may be the last one written.
Layer3(db, fr, ts) ==
    LET sig   == ts.Hash
        T     == getThresholdForType(ts.Type)
        S     == T + softSpamDelta
        keys  == MatchedKeys(db, LocalFragPrefix, sig)
        db1   == ExpireAll(db, keys, localRetentionDuration)
        cands == Members(db1, keys)
        r     == computeDistanceBatch(sig, cands)
        hard  == {h \in DOMAIN r.dist : r.dist[h] <= T /\ Positive(db1, h)}
        soft  == {h \in DOMAIN r.dist : r.dist[h] > T /\ r.dist[h] <= S /\ Positive(db1, h)}
    IN IF EnoughBands(keys)
       THEN IF cands # {} /\ ~r.err
            THEN IF hard # {}
                 THEN {Out(db1, Result("spam", "local_spam", TRUE, r.dist[h], ts.Type),
                           "next", <<>>, <<3>>) : h \in hard}
                 ELSE IF soft # {} /\ fr.Action # "spam"
                 THEN {Out(db1, Result("soft_spam", "local_soft", TRUE, r.dist[h], ts.Type),
                           "next", <<>>, <<3>>) : h \in soft}
                 ELSE {Out(db1, [fr EXCEPT !.ProximityMatch = TRUE], "next", <<>>, <<3>>)}
            ELSE {Out(db1, [fr EXCEPT !.ProximityMatch = TRUE], "next", <<>>, <<3>>)}
       ELSE Via(3, Layer4(db, fr, ts))

\* Step 1.5: oracle-cache proximity lookup
Layer2(db, fr, ts) ==
    LET sig   == ts.Hash
        T     == getThresholdForType(ts.Type)
        S     == T + softSpamDelta
        keys  == MatchedKeys(db, OracleCacheFragPrefix, sig)
        cands == Members(db, keys)
        r     == computeDistanceBatch(sig, cands)
        hard  == {h \in DOMAIN r.dist : r.dist[h] <= T}
        soft  == {h \in DOMAIN r.dist : r.dist[h] > T /\ r.dist[h] <= S}
    IN IF EnoughBands(keys) /\ cands # {} /\ ~r.err
       THEN IF hard # {}
            THEN {Out(db, Result("spam", "oracle_cache_match", TRUE, r.dist[h], ts.Type),
                      "end", <<>>, <<2>>) : h \in hard}
            ELSE IF soft # {} /\ fr.Action # "spam"
            THEN Via(2, UNION {Layer3(db, Result("soft_spam", "oracle_cache_soft", TRUE,
                                                 r.dist[h], ts.Type), ts) : h \in soft})
            ELSE Via(2, Layer3(db, fr, ts))
       ELSE Via(2, Layer3(db, fr, ts))

\* a variant without the exact cache
Layer1_Skip(db, fr, ts) == Via(1, Layer2(db, fr, ts))

\* Step 1: exact oracle decision cache
Layer1(db, fr, ts) ==
    LET cached == Get(db, OracleCacheKey(ts.Hash))
    IN IF Exists(db, OracleCacheKey(ts.Hash)) /\ cached.Action = "spam"
       THEN {Out(db, cached, "end", <<>>, <<1>>)}
       ELSE Via(1, Layer2(db, fr, ts))

\* a variant of the loop's exit test that goes on after a spam verdict reached
\* through nextSignature
Stops_EndOnly(o) == o.ctl = "end"

\* a variant that also stops after a signature settled in the local lookup
Stops_AtLayer3(o) == o.ctl = "end" \/ o.fr.Action = "spam" \/ o.layers = <<1, 2, 3>>

\* the loop stops at endAnalysis or break, and at nextSignature when
\* finalResult.Action is spam
Stops(o) == o.ctl = "end" \/ o.fr.Action = "spam"

\* the loop over the typed signatures; acc = [calls, visits] so far, a visit
\* being the index of a signature, the layers it went through and
\* finalResult.Action and finalResult.ProximityMatch after it
RECURSIVE SearchLoop(_, _, _, _, _)
SearchLoop(db, fr, sigs, i, acc) ==
    IF i > Len(sigs) THEN {[db |-> db, fr |-> fr, calls |-> acc.calls, visits |-> acc.visits]}
    ELSE UNION { LET acc1 == [calls  |-> acc.calls \o o.calls,
                              visits |-> Append(acc.visits,
                                                [sig |-> i, layers |-> o.layers,
                                                 action |-> o.fr.Action,
                                                 prox |-> o.fr.ProximityMatch])]
                 IN IF Stops(o)
                    THEN {[db |-> o.db, fr |-> o.fr, calls |-> acc1.calls,
                           visits |-> acc1.visits]}
                    ELSE SearchLoop(o.db, o.fr, sigs, i + 1, acc1)
                 : o \in Layer1(db, fr, sigs[i]) }

\* analyzeHandler after MIME parsing and the whitelist check: the possible
\* [db, fr, calls, visits]
analyzeHandler(db, m) ==
    SearchLoop(db, Result("allow", "", FALSE, 0, ""), m.sigs, 1,
               [calls |-> <<>>, visits |-> <<>>])

ScanKey(id) == "mi:msgid:" \o Sha1(id)

\* a variant that adds the hashes to those of the record already there
storeScanResult_Append(db, task) ==
    IF task.id = "" THEN db
    ELSE Set(db, ScanKey(task.id),
             [Hashes |-> (IF Exists(db, ScanKey(task.id)) THEN Get(db, ScanKey(task.id)).Hashes
                          ELSE <<>>) \o task.hashes],
             ScanResultTTL)

\* storeScanResult: nothing without a Message-ID
storeScanResult(db, task) ==
    IF task.id = "" THEN db
    ELSE Set(db, ScanKey(task.id), [Hashes |-> task.hashes], ScanResultTTL)

-----------------------------------------------------------------------------
(* Learner: reportHandler *)

ReportKey(id, type) == "mi:rpt:" \o Sha1(id) \o ":" \o type

Min(S) == CHOOSE x \in S : \A y \in S : x <= y

NoMatchDist == 9999

\* 1. Identify candidates using LSH: the possible [hash, dist] of the best
\* match; among candidates at the same smallest distance Go's map order decides
BestMatch(db, hash) ==
    LET keys  == MatchedKeys(db, LocalFragPrefix, hash)
        cands == Members(db, keys)
        r     == computeDistanceBatch(hash, cands)
        found == {h \in DOMAIN r.dist : r.dist[h] < NoMatchDist}
    IN IF EnoughBands(keys) /\ cands # {} /\ ~r.err /\ found # {}
       THEN {[hash |-> h, dist |-> r.dist[h]] :
                h \in {x \in found : r.dist[x] = Min({r.dist[y] : y \in found})}}
       ELSE {[hash |-> "", dist |-> NoMatchDist]}

HasLocalFrag(k) == Len(k) >= Len(LocalFragPrefix) /\ SubSeq(k, 1, Len(LocalFragPrefix)) = LocalFragPrefix

\* Decision Logic: the canonical target of a reported hash
TargetHash(hash, best) == IF best.dist <= 70 THEN best.hash ELSE hash

\* variants: the score written instead of incremented; the expiries refreshed
\* without adding the target to its bands
SpamIncr_Set(db, target) ==
    Put(db, LocalScorePrefix \o target,
        [v |-> spamWeight,
         ttl |-> IF Exists(db, LocalScorePrefix \o target)
                 THEN db[LocalScorePrefix \o target].ttl ELSE NoTTL])
SpamRefresh_ScoreOnly(db, target) ==
    Expire(db, LocalScorePrefix \o target, localRetentionDuration)

\* the spam branch for one target: INCRBY, then the pipeline SADD/EXPIRE of
\* every band of the target and EXPIRE of the score
SpamIncr(db, target) == IncrBy(db, LocalScorePrefix \o target, spamWeight)
SpamRefresh(db, target) ==
    Expire(SAddExpireBands(db, LocalFragPrefix, BandSeq(target), target,
                           localRetentionDuration),
           LocalScorePrefix \o target, localRetentionDuration)
LearnSpam(db, target) == SpamRefresh(SpamIncr(db, target), target)

\* a variant that drops a digest whose score has fallen to 0 or below
LearnHam_Evict(db, target) ==
    LET db1 == DecrBy(db, LocalScorePrefix \o target, hamWeight)
    IN IF GetInt(db1, LocalScorePrefix \o target) > 0
       THEN Expire(db1, LocalScorePrefix \o target, localRetentionDuration)
       ELSE Del([k \in DOMAIN db1 |->
                   IF HasLocalFrag(k) THEN [db1[k] EXCEPT !.v = @ \ {target}] ELSE db1[k]],
                LocalScorePrefix \o target)

\* the ham branch for one target: DECRBY, then EXPIRE of the score
HamDecr(db, target) == DecrBy(db, LocalScorePrefix \o target, hamWeight)
HamRefresh(db, target) == Expire(db, LocalScorePrefix \o target, localRetentionDuration)
LearnHam(db, target) == HamRefresh(HamDecr(db, target), target)

\* one round of the loop over scanData.Hashes: the possible [db, skip]
LearnOne(db, hash, type, skip) ==
    { LET target == TargetHash(hash, best)
      IN IF type = "spam"
         THEN [db |-> LearnSpam(db, target), skip |-> skip \/ best.dist <= 70]
         ELSE IF type = "ham" /\ best.dist <= 70
         THEN [db |-> LearnHam(db, target), skip |-> skip]
         ELSE [db |-> db, skip |-> skip]
      : best \in BestMatch(db, hash) }

RECURSIVE LearnLoop(_, _, _, _, _)
LearnLoop(db, hashes, i, type, skip) ==
    IF i > Len(hashes) THEN {[db |-> db, skip |-> skip]}
    ELSE UNION {LearnLoop(o.db, hashes, i + 1, type, o.skip) :
                    o \in LearnOne(db, hashes[i], type, skip)}

\* what the POST to the oracle's /report may give: no response, or a status
OracleReportAnswers == {0, 200, 500}

\* what a step answers: the HTTP response and, for the observer, the POSTs made
\* to the oracle and the layers visited
Resp(op, id, type, code, status, res, hashes, oracle) ==
    [op |-> op, id |-> id, rtype |-> type, code |-> code, status |-> status,
     res |-> res, hashes |-> hashes, oracle |-> oracle, visits |-> <<>>,
     whitelisted |-> FALSE, reason |-> "", body |-> <<>>]
NoRes == Result("", "", FALSE, 0, "")
NoResp == Resp("none", "", "", 0, "", NoRes, <<>>, <<>>)

ROut(db, code, status, oracle, learned) ==
    [db |-> db, code |-> code, status |-> status, oracle |-> oracle, learned |-> learned]

\* a variant that sets the key whether or not it is held (SET for SETNX)
SetNXReport_Set(db, id, type) ==
    [db |-> Set(db, ReportKey(id, type), "1", ReportKeyTTL), added |-> TRUE]

\* the duplicate gate: SETNX mi:rpt:<sha1>:<type> with 24 h
SetNXReport(db, id, type) ==
    IF Exists(db, ReportKey(id, type)) THEN [db |-> db, added |-> FALSE]
    ELSE [db |-> Set(db, ReportKey(id, type), "1", ReportKeyTTL), added |-> TRUE]

\* the end of reportHandler, after local learning: skip or forward
Forward(db, type, skip, hashes) ==
    IF type = "spam" /\ skip
    THEN {ROut(db, 200, "skipped_oracle", <<>>, TRUE)}
    ELSE {IF a = 0 THEN ROut(db, 503, "oracle_unreachable", hashes, TRUE)
          ELSE ROut(db, a, "proxied", hashes, TRUE) : a \in OracleReportAnswers}

\* a variant that takes a missing scan record for an empty one
reportHandler_MissingIsEmpty(db, id, type) ==
    LET gate == SetNXReport(db, id, type)
        db1  == gate.db
        scan == Get(db1, ScanKey(id))
    IN IF ~gate.added THEN {ROut(db, 409, "duplicate", <<>>, FALSE)}
       ELSE IF ~Exists(db1, ScanKey(id)) \/ Len(scan.Hashes) = 0
       THEN {ROut(db1, 400, "no_hashes", <<>>, FALSE)}
       ELSE UNION {Forward(o.db, type, o.skip, scan.Hashes) :
                      o \in LearnLoop(db1, scan.Hashes, 1, type, FALSE)}

\* a variant that learns only when the oracle can be reached
reportHandler_OracleFirst(db, id, type) ==
    LET gate == SetNXReport(db, id, type)
        db1  == gate.db
        scan == Get(db1, ScanKey(id))
    IN IF ~gate.added THEN {ROut(db, 409, "duplicate", <<>>, FALSE)}
       ELSE IF ~Exists(db1, ScanKey(id)) THEN {ROut(db1, 404, "no_scan", <<>>, FALSE)}
       ELSE IF Len(scan.Hashes) = 0 THEN {ROut(db1, 400, "no_hashes", <<>>, FALSE)}
       ELSE {ROut(db1, 503, "oracle_unreachable", scan.Hashes, FALSE)}
               \cup {r \in UNION {Forward(o.db, type, o.skip, scan.Hashes) :
                                     o \in LearnLoop(db1, scan.Hashes, 1, type, FALSE)} :
                        r.code # 503}

\* a variant that gives the duplicate-suppression key back when the report
\* taught nothing or did not reach the oracle
reportHandler_Rollback(db, id, type) ==
    LET gate == SetNXReport(db, id, type)
        db1  == gate.db
        scan == Get(db1, ScanKey(id))
    IN IF ~gate.added THEN {ROut(db, 409, "duplicate", <<>>, FALSE)}
       ELSE IF ~Exists(db1, ScanKey(id)) THEN {ROut(db, 404, "no_scan", <<>>, FALSE)}
       ELSE IF Len(scan.Hashes) = 0 THEN {ROut(db, 400, "no_hashes", <<>>, FALSE)}
       ELSE {IF r.code = 503 THEN [r EXCEPT !.db = Del(@, ReportKey(id, type))] ELSE r :
                r \in UNION {Forward(o.db, type, o.skip, scan.Hashes) :
                                o \in LearnLoop(db1, scan.Hashes, 1, type, FALSE)}}

\* reportHandler: the possible outcomes of one /report
reportHandler(db, id, type) ==
    LET gate == SetNXReport(db, id, type)
        db1  == gate.db
        scan == Get(db1, ScanKey(id))
    IN IF ~gate.added THEN {ROut(db, 409, "duplicate", <<>>, FALSE)}
       ELSE IF ~Exists(db1, ScanKey(id)) THEN {ROut(db1, 404, "no_scan", <<>>, FALSE)}
       ELSE IF Len(scan.Hashes) = 0 THEN {ROut(db1, 400, "no_hashes", <<>>, FALSE)}
       ELSE UNION {Forward(o.db, type, o.skip, scan.Hashes) :
                      o \in LearnLoop(db1, scan.Hashes, 1, type, FALSE)}

-----------------------------------------------------------------------------
(* Sync worker *)

\* what the oracle's /sync may answer
SyncOp(action, bands) == [action |-> action, bands |-> bands]
SyncOps == {<<SyncOp("add", BandSeq(DA))>>,
            <<SyncOp("del", BandSeq(DA))>>,
            <<SyncOp("add", SubSeq(BandSeq(DA), 1, 4)), SyncOp("del", BandSeq(DA))>>,
            <<SyncOp("del", SubSeq(BandSeq(DA), 1, 4)), SyncOp("add", BandSeq(DA))>>}

\* err: no response (transport error, timeout); code: the HTTP status; json:
\* the body decodes to a SyncResponse, whose fields follow
SyncAnswer(err, code, json, action, new_seq, ops) ==
    [err |-> err, code |-> code, json |-> json, action |-> action, new_seq |-> new_seq,
     ops |-> ops]
SyncAnswers ==
    {SyncAnswer(TRUE, 0, FALSE, "", 0, <<>>),
     SyncAnswer(FALSE, 500, TRUE, "UPDATE_DELTA", MaxSeq, <<SyncOp("add", BandSeq(DA))>>),
     SyncAnswer(FALSE, 200, FALSE, "", 0, <<>>)}
      \cup {SyncAnswer(FALSE, 200, TRUE, "UPDATE_DELTA", n, o) : n \in 1..MaxSeq, o \in SyncOps}
      \cup {SyncAnswer(FALSE, 200, TRUE, "RESET_DB", 0, <<>>),
            SyncAnswer(FALSE, 200, TRUE, "NOOP", 0, <<>>)}

\* the request of a cycle: GET mi_meta:v, whose error is dropped, leaves 0
syncRequest(db, readOk) == [current_seq |-> IF readOk THEN GetInt(db, MetaVer) ELSE 0]

RECURSIVE ApplyBands(_, _, _, _)
ApplyBands(db, action, bands, i) ==
    IF i > Len(bands) THEN db
    ELSE ApplyBands(IF action = "add" THEN Set(db, FragKeyPrefix \o bands[i], "1", 0)
                    ELSE IF action = "del" THEN Del(db, FragKeyPrefix \o bands[i])
                    ELSE db,
                    action, bands, i + 1)

\* a variant that applies the ops from the last to the first
RECURSIVE ApplyOps_Reversed(_, _, _)
ApplyOps_Reversed(db, ops, i) ==
    IF i > Len(ops) THEN db
    ELSE ApplyBands(ApplyOps_Reversed(db, ops, i + 1), ops[i].action, ops[i].bands, 1)

RECURSIVE ApplyOps(_, _, _)
ApplyOps(db, ops, i) ==
    IF i > Len(ops) THEN db
    ELSE ApplyOps(ApplyBands(db, ops[i].action, ops[i].bands, 1), ops, i + 1)

HasPrefix(k, p) == Len(k) >= Len(p) /\ SubSeq(k, 1, Len(p)) = p

\* a variant that decodes the body whatever the status
doSync_AnyStatus(db, a) ==
    IF a.err \/ ~a.json THEN db
    ELSE IF a.action = "UPDATE_DELTA"
    THEN Set(ApplyOps(db, a.ops, 1), MetaVer, a.new_seq, 0)
    ELSE IF a.action = "RESET_DB"
    THEN Set([k \in {x \in DOMAIN db : ~HasPrefix(x, FragKeyPrefix)} |-> db[k]], MetaVer, 0, 0)
    ELSE db

\* doSync from the answer on, the store taking the writes
doSync(db, a) ==
    IF a.err THEN db
    ELSE IF a.code # 200 THEN db
    ELSE IF ~a.json THEN db
    ELSE IF a.action = "UPDATE_DELTA"
    THEN Set(ApplyOps(db, a.ops, 1), MetaVer, a.new_seq, 0)
    ELSE IF a.action = "RESET_DB"
    THEN Set([k \in {x \in DOMAIN db : ~HasPrefix(x, FragKeyPrefix)} |-> db[k]], MetaVer, 0, 0)
    ELSE db

-----------------------------------------------------------------------------
(* /status *)

EngineVersion == "0.5.1"

\* a variant that writes mi_meta:v when it is absent
statusHandler_Repair(db, nodeID, up) ==
    IF ~up THEN [db |-> db, code |-> 503, body |-> <<>>]
    ELSE [db |-> IF Exists(db, MetaVer) THEN db ELSE Set(db, MetaVer, 0, 0), code |-> 200,
          body |-> [node_id |-> nodeID, current_seq |-> GetInt(db, MetaVer),
                    version |-> EngineVersion]]

\* statusHandler of a started node (nodeID is set before the server listens);
\* up: the GET of mi_meta:v gives a value or redis.Nil
statusHandler(db, nodeID, up) ==
    IF ~up THEN [db |-> db, code |-> 503, body |-> <<>>]
    ELSE [db |-> db, code |-> 200,
          body |-> [node_id |-> nodeID, current_seq |-> GetInt(db, MetaVer),
                    version |-> EngineVersion]]

-----------------------------------------------------------------------------
(* Whitelist *)

\* strings.Index (0 when absent), TrimSpace, ToLower
Index(str, c) ==
    LET P == {i \in 1..Len(str) : SubSeq(str, i, i) = c}
    IN IF P = {} THEN 0 ELSE CHOOSE i \in P : \A j \in P : i <= j
After(str, i) == SubSeq(str, i + 1, Len(str))
Before(str, i) == SubSeq(str, 1, i - 1)
WhiteSpace == " \t\n\r\f"
RECURSIVE TrimSpace(_)
TrimSpace(str) ==
    IF str = "" THEN ""
    ELSE IF Index(WhiteSpace, SubSeq(str, 1, 1)) # 0 THEN TrimSpace(After(str, 1))
    ELSE IF Index(WhiteSpace, SubSeq(str, Len(str), Len(str))) # 0
    THEN TrimSpace(Before(str, Len(str)))
    ELSE str
UpperCase == "ABCDEFGHIJKLMNOPQRSTUVWXYZ"
LowerCase == "abcdefghijklmnopqrstuvwxyz"
LowerChar(c) ==
    IF Index(UpperCase, c) # 0
    THEN SubSeq(LowerCase, Index(UpperCase, c), Index(UpperCase, c)) ELSE c
RECURSIVE ToLower(_)
ToLower(str) ==
    IF str = "" THEN "" ELSE LowerChar(SubSeq(str, 1, 1)) \o ToLower(After(str, 1))

\* the character at i ("" past the end), the first index >= i of c (0 when
\* there is none), and the length of the run from i of characters that are
\* in a class (in = TRUE) or not in it
At(str, i) == IF i >= 1 /\ i <= Len(str) THEN SubSeq(str, i, i) ELSE ""
Sub(str, i, j) == SubSeq(str, i, IF j <= Len(str) THEN j ELSE Len(str))
IndexFrom(str, c, i) ==
    LET P == {j \in i..Len(str) : SubSeq(str, j, j) = c}
    IN IF P = {} THEN 0 ELSE CHOOSE j \in P : \A k \in P : j <= k
RECURSIVE RunLen(_, _, _, _)
RunLen(str, i, class, in) ==
    IF i <= Len(str) /\ ((Index(class, At(str, i)) # 0) = in)
    THEN 1 + RunLen(str, i + 1, class, in) ELSE 0

\* ReplaceAllString of a pattern <class>{min,}: every maximal run of at least
\* min characters of the class becomes rep
RECURSIVE ReplaceRuns(_, _, _, _, _)
ReplaceRuns(str, i, class, min, rep) ==
    IF i > Len(str) THEN ""
    ELSE LET n == RunLen(str, i, class, TRUE)
         IN IF n >= min THEN rep \o ReplaceRuns(str, i + n, class, min, rep)
            ELSE IF n > 0
            THEN SubSeq(str, i, i + n - 1) \o ReplaceRuns(str, i + n, class, min, rep)
            ELSE At(str, i) \o ReplaceRuns(str, i + 1, class, min, rep)

\* reImgSrc: (?i)<img([^>]*?)src="[^"]*"([^>]*?)> becomes <img${1}src="imgurl"${2}>;
\* the match from i as [src, quote, close] (the src=" taken, the quote closing
\* it, the > closing the tag), or <<>>
ImgMatch(str, i) ==
    LET J == {j \in (i + 4)..Len(str) :
                 /\ IndexFrom(Sub(str, 1, j - 1), ">", i + 4) = 0
                 /\ ToLower(Sub(str, j, j + 4)) = "src=\""
                 /\ IndexFrom(str, "\"", j + 5) # 0
                 /\ IndexFrom(str, ">", IndexFrom(str, "\"", j + 5) + 1) # 0}
        j == CHOOSE x \in J : \A y \in J : x <= y
        q == IndexFrom(str, "\"", j + 5)
    IN IF ToLower(Sub(str, i, i + 3)) = "<img" /\ J # {}
       THEN <<j, q, IndexFrom(str, ">", q + 1)>> ELSE <<>>
RECURSIVE ReplaceImgSrc(_, _)
ReplaceImgSrc(str, i) ==
    IF i > Len(str) THEN ""
    ELSE LET m == ImgMatch(str, i)
         IN IF m # <<>>
            THEN "<img" \o SubSeq(str, i + 4, m[1] - 1) \o "src=\"imgurl\""
                    \o SubSeq(str, m[2] + 1, m[3] - 1) \o ">" \o ReplaceImgSrc(str, m[3] + 1)
            ELSE At(str, i) \o ReplaceImgSrc(str, i + 1)

\* reStyleAttr: (?i)\s*style\s*=\s*"[^"]*" removed; the end of the match from
\* i, or 0
StyleEnd(str, i) ==
    LET a == i + RunLen(str, i, WhiteSpace, TRUE)
        c == a + 5 + RunLen(str, a + 5, WhiteSpace, TRUE)
        d == c + 1 + RunLen(str, c + 1, WhiteSpace, TRUE)
    IN IF ToLower(Sub(str, a, a + 4)) = "style" /\ At(str, c) = "=" /\ At(str, d) = "\""
       THEN IndexFrom(str, "\"", d + 1) ELSE 0
RECURSIVE RemoveStyleAttr(_, _)
RemoveStyleAttr(str, i) ==
    IF i > Len(str) THEN ""
    ELSE IF StyleEnd(str, i) # 0 THEN RemoveStyleAttr(str, StyleEnd(str, i) + 1)
    ELSE At(str, i) \o RemoveStyleAttr(str, i + 1)

\* reTrackers: (?i)([?&])(utm_[^=&]+|gclid|fbclid|mc_eid|mc_cid)=[^&\s"'>]+
\* becomes $1; the index of the = that follows the name from i, or 0
TrackerNames == {"gclid", "fbclid", "mc_eid", "mc_cid"}
TrackerEq(str, i) ==
    LET n == RunLen(str, i + 5, "=&", FALSE)
        F == {nm \in TrackerNames : ToLower(Sub(str, i + 1, i + Len(nm))) = nm
                                      /\ At(str, i + Len(nm) + 1) = "="}
    IN IF Index("?&", At(str, i)) = 0 THEN 0
       ELSE IF ToLower(Sub(str, i + 1, i + 4)) = "utm_" /\ n >= 1 /\ At(str, i + 5 + n) = "="
       THEN i + 5 + n
       ELSE IF F # {} THEN i + Len(CHOOSE nm \in F : TRUE) + 1
       ELSE 0
RECURSIVE RemoveTrackers(_, _)
RemoveTrackers(str, i) ==
    IF i > Len(str) THEN ""
    ELSE LET e == TrackerEq(str, i)
             n == RunLen(str, e + 1, "&\"'>" \o WhiteSpace, FALSE)
         IN IF e # 0 /\ n >= 1 THEN At(str, i) \o RemoveTrackers(str, e + n + 1)
            ELSE At(str, i) \o RemoveTrackers(str, i + 1)

\* reNewlines: \r?\n{2,} becomes two newlines
RECURSIVE CollapseNewlines(_, _)
CollapseNewlines(str, i) ==
    IF i > Len(str) THEN ""
    ELSE LET cr == IF At(str, i) = "\r" THEN 1 ELSE 0
             n  == RunLen(str, i + cr, "\n", TRUE)
         IN IF n >= 2 THEN "\n\n" \o CollapseNewlines(str, i + cr + n)
            ELSE At(str, i) \o CollapseNewlines(str, i + 1)

HexDigits == "0123456789abcdefABCDEF"
DecDigits == "0123456789"

normalizeEmailBody(text, html) ==
    LET trimmed == TrimSpace(text \o "\n\n" \o html)
        img     == ReplaceImgSrc(trimmed, 1)
        hex8    == ReplaceRuns(img, 1, HexDigits, 8, "****")
        digit6  == ReplaceRuns(hex8, 1, DecDigits, 6, "****")
        style   == RemoveStyleAttr(digit6, 1)
        track   == RemoveTrackers(style, 1)
        lower   == ToLower(track)
        spaces  == ReplaceRuns(lower, 1, " \t", 1, " ")
    IN CollapseNewlines(spaces, 1)

\* "Name <email@domain>" -> "email@domain"
Unbracket(email) ==
    IF Index(email, "<") # 0
    THEN LET rest == After(email, Index(email, "<"))
         IN IF Index(rest, ">") # 0 THEN Before(rest, Index(rest, ">")) ELSE rest
    ELSE email

extractDomain(email) ==
    LET e == Unbracket(TrimSpace(email))
    IN IF Index(e, "@") # 0 THEN ToLower(After(e, Index(e, "@"))) ELSE ""

\* domain and email of the From headers in play, computed once
SenderOf ==
    [h \in FromHeaders |-> [domain |-> extractDomain(h), email |-> Unbracket(ToLower(h))]]
Sender(h) ==
    IF h \in DOMAIN SenderOf THEN SenderOf[h]
    ELSE [domain |-> extractDomain(h), email |-> Unbracket(ToLower(h))]

WhitelistDomain == "mi:whitelist:domain"
WhitelistEmail  == "mi:whitelist:email"

\* a variant that looks at the domain list only
isWhitelisted_DomainOnly(db, fromHeader) ==
    LET snd == Sender(fromHeader)
    IN IF snd.domain # "" /\ SIsMember(db, WhitelistDomain, snd.domain)
       THEN [ok |-> TRUE, reason |-> "domain:" \o snd.domain]
       ELSE [ok |-> FALSE, reason |-> ""]

isWhitelisted(db, fromHeader) ==
    LET snd == Sender(fromHeader)
    IN IF snd.domain # "" /\ SIsMember(db, WhitelistDomain, snd.domain)
       THEN [ok |-> TRUE, reason |-> "domain:" \o snd.domain]
       ELSE IF snd.email # "" /\ SIsMember(db, WhitelistEmail, snd.email)
       THEN [ok |-> TRUE, reason |-> "email:" \o snd.email]
       ELSE [ok |-> FALSE, reason |-> ""]

\* the bodies POST /whitelist and DELETE /whitelist are called with
WhitelistBodies ==
    {[type |-> "domain", value |-> " Example.COM"],
     [type |-> "email",  value |-> "A@example.com "],
     [type |-> "sender", value |-> " "]}

\* reqBody.Value after strings.ToLower(strings.TrimSpace(...)), computed once
ValueOf == [body \in WhitelistBodies |-> ToLower(TrimSpace(body.value))]

WhitelistKey(type) ==
    IF type = "domain" THEN WhitelistDomain ELSE IF type = "email" THEN WhitelistEmail ELSE ""

\* whitelistHandler, POST and DELETE: the store and the answer
whitelistHandler(db, method, body) ==
    LET value == ValueOf[body]
        key   == WhitelistKey(body.type)
    IN IF method = "POST"
       THEN IF value = "" \/ key = ""
            THEN [db |-> db, code |-> 400, status |-> ""]
            ELSE [db |-> SAdd(db, key, value), code |-> 200, status |-> "added"]
       ELSE IF key = ""
            THEN [db |-> db, code |-> 400, status |-> ""]
            ELSE [db |-> SRem(db, key, value), code |-> 200, status |-> "removed"]

-----------------------------------------------------------------------------
(* Stats worker *)

\* the counters, in the order the worker swaps and restores them
Counters == <<"scanCount", "partialMatchCount", "spamConfirmedCount",
              "cachedPositiveCount", "cachedNegativeCount", "localSpamCount">>
Zero == [c \in Range(Counters) |-> 0]

\* cnt: the counters; held: the values the worker swapped out; pc, i: where
\* the worker is; total, acked: increments made and values carried by the
\* POSTs the oracle acknowledged; failed: a POST has failed before
NoStats == [cnt |-> Zero, held |-> Zero, pc |-> "wait", i |-> 0,
            total |-> Zero, acked |-> Zero, failed |-> FALSE]

\* atomic.SwapInt64(&c, 0)
swapCounter(st, c) == [st EXCEPT !.held[c] = st.cnt[c], !.cnt[c] = 0]

\* a variant that stores the held value back
addCounter_Store(st, c) == [st EXCEPT !.cnt[c] = st.held[c], !.held[c] = 0]

\* atomic.AddInt64(&c, held)
addCounter(st, c) == [st EXCEPT !.cnt[c] = @ + st.held[c], !.held[c] = 0]

NothingHeld(st) == \A c \in Range(Counters) : st.held[c] = 0

\* what the POST to the oracle's /stats may give: no response, or a status
StatsAnswers == {0, 200, 500}
StatsFailed(a) == a = 0 \/ a > 299

RECURSIVE SumOver(_, _)
SumOver(f, i) == IF i = 0 THEN 0 ELSE f[Counters[i]] + SumOver(f, i - 1)

-----------------------------------------------------------------------------
(* The engine as a state machine *)

\* a worker of the HTTP server that serves no /report
Idle == [pc |-> "idle", id |-> "", type |-> "", hashes |-> <<>>, i |-> 0,
         target |-> "", near |-> FALSE, skip |-> FALSE]

NoTally == [passed |-> [k \in {} |-> 0], adj |-> [d \in Digests |-> [spam |-> 0, ham |-> 0]]]

\* initNode on a fresh store, and the workload of the run
Start(W) ==
    /\ rdb = Set(Set(<<>>, MetaNodeID, "node-1", 0), MetaVer, 0, 0)
    /\ scans = {}
    /\ last = NoResp
    /\ msgs \in W
    /\ hist = [ev |-> <<>>, first |-> [id \in MsgIds |-> "none"]]
    /\ procs = [p \in 1..NProcs |-> Idle]
    /\ tally = NoTally
    /\ stats = NoStats

\* a store that has already learned M1 as spam (M1 analysed against the empty
\* store, its scan record stored, its spam report processed), fed M6, whose
\* digest lies in the soft range of M1's
Seeded ==
    /\ rdb \in {o.db : o \in reportHandler(
                   storeScanResult(Set(Set(<<>>, MetaNodeID, "node-1", 0), MetaVer, 0, 0),
                                   [id |-> M1.id, hashes |-> Hashes(M1)]),
                   M1.id, "spam")}
    /\ scans = {}
    /\ last = NoResp
    /\ msgs = {M6}
    /\ hist = [ev |-> <<[id |-> M1.id, type |-> "spam", age |-> 0]>>,
               first |-> [id \in MsgIds |-> "none"]]
    /\ procs = [p \in 1..NProcs |-> Idle]
    /\ tally = NoTally
    /\ stats = NoStats

Init == Start(Solo) \/ Seeded

\* the observer: the reports that got past the gate and the scan lookup, oldest
\* first, each with the ticks since; and what the first /analyze of a message said
RetentionTicks == Ticks(localRetentionDuration)
Overflow == [id |-> "*", type |-> "*", age |-> 0]
Record(h, id, type) ==
    [h EXCEPT !.ev = IF Len(h.ev) < MaxEvents
                     THEN Append(h.ev, [id |-> id, type |-> type, age |-> 0])
                     ELSE <<Overflow>>]
Aged(h) ==
    [h EXCEPT !.ev = [i \in DOMAIN h.ev |->
                        [h.ev[i] EXCEPT !.age = IF @ < RetentionTicks THEN @ + 1 ELSE @]]]
Seen(h, id, fr) ==
    IF h.first[id] # "none" THEN h
    ELSE [h EXCEPT !.first[id] = IF fr.Action = "allow" /\ ~fr.ProximityMatch
                                 THEN "clean" ELSE "other"]

ScoresBounded(db) ==
    \A d \in Digests \cup NearDigests \cup {DT} :
       GetInt(db, LocalScorePrefix \o d) \in (0 - MaxScore)..MaxScore

\* POST /analyze: the whitelist answer, or the collision search with the scan
\* record left to a goroutine
\* a variant that writes the scan record before it answers
AnalyzeWithin_Sync(m, pending) ==
    /\ IF isWhitelisted(rdb, m.from).ok
       THEN /\ last' = [Resp("analyze", m.id, "", 200, "",
                             Result("allow", "whitelisted", FALSE, 0, ""), <<>>, <<>>)
                          EXCEPT !.whitelisted = TRUE,
                                 !.reason = isWhitelisted(rdb, m.from).reason]
            /\ UNCHANGED <<rdb, scans, hist>>
       ELSE /\ Cardinality(scans) < pending
            /\ \E o \in analyzeHandler(rdb, m) :
                /\ rdb' = storeScanResult(o.db, [id |-> m.id, hashes |-> Hashes(m)])
                /\ scans' = scans
                /\ last' = [Resp("analyze", m.id, "", 200, "", o.fr, Hashes(m), o.calls)
                               EXCEPT !.visits = o.visits]
                /\ hist' = Seen(hist, m.id, o.fr)
    /\ UNCHANGED <<procs, tally, msgs, stats>>

AnalyzeWithin(m, pending) ==
    /\ IF isWhitelisted(rdb, m.from).ok
       THEN /\ last' = [Resp("analyze", m.id, "", 200, "",
                             Result("allow", "whitelisted", FALSE, 0, ""), <<>>, <<>>)
                          EXCEPT !.whitelisted = TRUE,
                                 !.reason = isWhitelisted(rdb, m.from).reason]
            /\ UNCHANGED <<rdb, scans, hist>>
       ELSE /\ Cardinality(scans) < pending
            /\ \E o \in analyzeHandler(rdb, m) :
                /\ rdb' = o.db
                /\ scans' = scans \cup {[id |-> m.id, hashes |-> Hashes(m)]}
                /\ last' = [Resp("analyze", m.id, "", 200, "", o.fr, Hashes(m), o.calls)
                               EXCEPT !.visits = o.visits]
                /\ hist' = Seen(hist, m.id, o.fr)
    /\ UNCHANGED <<procs, tally, msgs, stats>>

Analyze(m) == AnalyzeWithin(m, MaxPending)

\* POST /whitelist and DELETE /whitelist
Whitelist(method, body) ==
    /\ LET o == whitelistHandler(rdb, method, body)
       IN /\ rdb' = o.db
          /\ last' = [Resp("whitelist", "", method, o.code, o.status, NoRes, <<>>, <<>>)
                         EXCEPT !.reason = body.type \o ":" \o ValueOf[body]]
    /\ UNCHANGED <<scans, hist, procs, tally, msgs, stats>>

\* the goroutine started by `go storeScanResult(env, signatures)`
StoreScan(t) ==
    /\ rdb' = storeScanResult(rdb, t)
    /\ scans' = scans \ {t}
    /\ last' = NoResp
    /\ UNCHANGED <<hist, procs, tally, msgs, stats>>

\* the goroutine's SET does not get through within its 5 s: the error is not
\* looked at and the record is not written
StoreScanTimeout(t) ==
    /\ scans' = scans \ {t}
    /\ last' = [Resp("scan", t.id, "", 0, "timeout", NoRes, t.hashes, <<>>) EXCEPT !.body = t]
    /\ UNCHANGED <<rdb, hist, procs, tally, msgs, stats>>

\* POST /report, served without interleaving
Report(id, type) ==
    /\ \E o \in reportHandler(rdb, id, type) :
        /\ ScoresBounded(o.db)
        /\ rdb' = o.db
        /\ last' = Resp("report", id, type, o.code, o.status, NoRes, <<>>, o.oracle)
        /\ hist' = IF o.learned THEN Record(hist, id, type) ELSE hist
    /\ UNCHANGED <<scans, procs, tally, msgs, stats>>

\* GET /status
Status(up) ==
    /\ LET o == statusHandler(rdb, Get(rdb, MetaNodeID), up)
       IN /\ rdb' = o.db
          /\ last' = [Resp("status", "", "", o.code, IF up THEN "up" ELSE "down", NoRes,
                            <<>>, <<>>)
                         EXCEPT !.body = o.body]
    /\ UNCHANGED <<scans, hist, procs, tally, msgs, stats>>

\* one sync cycle against a store that answers or not: the GET before the
\* POST (readOk) and the writes after it (writeOk); the observer sees the
\* POST made and its answer
SyncCycle(readOk, writeOk) ==
    /\ \E a \in SyncAnswers :
          /\ rdb' = IF writeOk THEN doSync(rdb, a) ELSE rdb
          /\ last' = [Resp("sync", "", "", a.code,
                            IF readOk THEN "read" ELSE "unread", NoRes, <<>>,
                            <<syncRequest(rdb, readOk)>>)
                         EXCEPT !.body = [a EXCEPT !.ops = IF writeOk THEN @ ELSE <<>>],
                                !.reason = IF writeOk THEN "written" ELSE "unwritten"]
    /\ UNCHANGED <<scans, hist, procs, tally, msgs, stats>>

\* one sync cycle, the store answering
Sync ==
    /\ \E a \in SyncAnswers : rdb' = doSync(rdb, a)
    /\ last' = NoResp
    /\ UNCHANGED <<scans, hist, procs, tally, msgs, stats>>

\* TickMinutes pass: every key with an expiry loses one tick, and is gone at 0
Expired(db) == {k \in DOMAIN db : db[k].ttl = 1}
Tick ==
    /\ rdb' = [k \in DOMAIN rdb \ Expired(rdb) |->
                 IF rdb[k].ttl = NoTTL THEN rdb[k]
                 ELSE [v |-> rdb[k].v, ttl |-> rdb[k].ttl - 1]]
    /\ last' = NoResp
    /\ hist' = Aged(hist)
    /\ UNCHANGED <<scans, procs, tally, msgs, stats>>

\* learning and matching against the local index
Next ==
    \/ \E m \in msgs : Analyze(m)
    \/ \E t \in scans : StoreScan(t)
    \/ \E id \in MsgIds, type \in ReportTypes : Report(id, type)
    \/ Tick

Spec == Init /\ [][Next]_vars

\* the same with the sync worker filling mi_f:*, so that the oracle is asked
InitOracle == Start({{M1}})

NextOracle ==
    \/ \E m \in msgs : Analyze(m)
    \/ \E t \in scans : StoreScan(t)
    \/ \E id \in MsgIds, type \in ReportTypes : Report(id, type)
    \/ Sync
    \/ Tick

SpecOracle == InitOracle /\ [][NextOracle]_vars

\* stores the engine reaches before the run: after initNode, after one sync
\* cycle that added the bands of d, after m was analysed against db, its scan
\* record stored and its spam report processed
FreshStore == Set(Set(<<>>, MetaNodeID, "node-1", 0), MetaVer, 0, 0)
Synced(db, d) ==
    doSync(db, SyncAnswer(FALSE, 200, TRUE, "UPDATE_DELTA", 1, <<SyncOp("add", BandSeq(d))>>))
Learned(db, m) ==
    {o.db : o \in reportHandler(storeScanResult(db, [id |-> m.id, hashes |-> Hashes(m)]),
                                m.id, "spam")}

\* a run that starts from one of these stores, ev being the reports processed
Feed(stores, W, ev) ==
    /\ rdb \in stores
    /\ scans = {}
    /\ last = NoResp
    /\ msgs \in W
    /\ hist = [ev |-> ev, first |-> [id \in MsgIds |-> "none"]]
    /\ procs = [p \in 1..NProcs |-> Idle]
    /\ tally = NoTally
    /\ stats = NoStats

\* the four layers on messages of two signatures: M3 against a synced oracle
\* index and an empty local index; M8 against a local index that knows M1
\* (DE meets it in Layer 3, DC does not) and an oracle index that knows DC
\* M5 against a local index that knows M1 (DC finds 3 band keys), and against
\* one that knows M1 and M9 (DC finds 4 band keys, of two digests); M4 after
\* the oracle answered spam for DA (DB meets it in Layer 2); M11 against a local
\* index that knows M1 (DE is a soft match in Layer 3, DC matches nothing)
AnsweredSpam(db, d) ==
    OracleAnswered(db, d, [err |-> FALSE, code |-> 200,
                           result |-> Result("spam", "oracle_spam", FALSE, 0, "")]).db
InitLayers ==
    \/ Feed({Synced(FreshStore, DA)}, {{M3}}, <<>>)
    \/ Feed({Synced(db, DC) : db \in Learned(FreshStore, M1)}, {{M8}},
            <<[id |-> M1.id, type |-> "spam", age |-> 0]>>)
    \/ Feed(Learned(FreshStore, M1), {{M5}},
            <<[id |-> M1.id, type |-> "spam", age |-> 0]>>)
    \/ Feed(UNION {Learned(db, M9) : db \in Learned(FreshStore, M1)}, {{M5}},
            <<[id |-> M1.id, type |-> "spam", age |-> 0],
              [id |-> M9.id, type |-> "spam", age |-> 0]>>)
    \/ Feed({AnsweredSpam(Synced(FreshStore, DA), DA)}, {{M4}}, <<>>)
    \/ Feed(Learned(FreshStore, M1), {{M11}},
            <<[id |-> M1.id, type |-> "spam", age |-> 0]>>)

SpecLayers == InitLayers /\ [][Next]_vars

\* the thresholds: a message whose one signature is DA, of any type, against
\* a local index that learned one digest at a boundary distance of that type
MT(t) == Msg("<t@x>", <<TS(DA, t)>>)
MN(n) == Msg("<n@x>", <<TS(Near(n), "normalized")>>)
TypeThreshold ==
    [t \in SigTypes |->
        CASE t = "normalized" -> thresholdNormalized
          [] t = "raw"        -> thresholdRaw
          [] t = "url"        -> thresholdURL
          [] t = "subject"    -> thresholdSubject
          [] t = "attachment" -> thresholdAttachment]
InitThreshold ==
    \E t \in SigTypes : \E n \in Boundary(TypeThreshold[t]) :
       Feed(Learned(FreshStore, MN(n)), {{MT(t)}},
            <<[id |-> MN(n).id, type |-> "spam", age |-> 0]>>)

SpecThreshold == InitThreshold /\ [][Next]_vars

\* an operator manages the whitelist while MW1 or MW2 is analysed, against
\* an empty local index or one that learned the message before
InitWhitelist ==
    \/ Start({{MW1}, {MW2}})
    \/ \E m \in {MW1, MW2} :
          Feed(Learned(FreshStore, m), {{m}}, <<[id |-> m.id, type |-> "spam", age |-> 0]>>)

NextWhitelist ==
    \/ \E m \in msgs : Analyze(m)
    \/ \E t \in scans : StoreScan(t)
    \/ \E body \in WhitelistBodies : Whitelist("POST", body)
    \/ \E body \in WhitelistBodies : Whitelist("DELETE", body)
    \/ Tick

SpecWhitelist == InitWhitelist /\ [][NextWhitelist]_vars

\* /report on what /analyze left behind: for a mail without signature, for a
\* mail without Message-ID, and on a scan record that holds a digest cut
\* short before a well-formed one; the local index knows M1
InitReport ==
    \/ Feed(Learned(FreshStore, M1), {{M0}, {MX}},
            <<[id |-> M1.id, type |-> "spam", age |-> 0]>>)
    \/ Feed({storeScanResult(db, [id |-> M10.id, hashes |-> <<DT, DB>>]) :
                db \in Learned(FreshStore, M1)}, {{M10}},
            <<[id |-> M1.id, type |-> "spam", age |-> 0]>>)

SpecReport == InitReport /\ [][Next]_vars

\* two mails with the same Message-ID analysed while the scan records of
\* earlier analyses are still to be written, against an empty local index
\* or one that knows M1
InitScan ==
    \/ Start({{MD1, MD2}, {MX}})
    \/ Feed(Learned(FreshStore, M1), {{MD1, MD2}, {MX}},
            <<[id |-> M1.id, type |-> "spam", age |-> 0]>>)

NextScan ==
    \/ \E m \in msgs : AnalyzeWithin(m, MaxQueued)
    \/ \E t \in scans : StoreScan(t)
    \/ Tick

SpecScan == InitScan /\ [][NextScan]_vars

\* /analyze, its goroutine and /report on a store that may not answer the
\* goroutine in time
InitAsync == Start({{M1}, {MX}})

NextAsync ==
    \/ \E m \in msgs : Analyze(m)
    \/ \E t \in scans : StoreScan(t)
    \/ \E t \in scans : StoreScanTimeout(t)
    \/ \E id \in MsgIds, type \in ReportTypes : Report(id, type)
    \/ Tick

SpecAsync == InitAsync /\ [][NextAsync]_vars

\* the sync worker and /status on a node whose store may stop answering: the
\* store after initNode, or after an initNode whose SET of mi_meta:v was lost
\* (its error is not looked at), or one that learned M1 before
StoreNoVer == Set(<<>>, MetaNodeID, "node-1", 0)
InitSync ==
    \/ Feed({FreshStore, StoreNoVer}, {{M1}}, <<>>)
    \/ Feed(Learned(FreshStore, M1), {{M1}}, <<[id |-> M1.id, type |-> "spam", age |-> 0]>>)

NextSync ==
    \/ \E readOk \in BOOLEAN, writeOk \in BOOLEAN : SyncCycle(readOk, writeOk)
    \/ \E up \in BOOLEAN : Status(up)
    \/ \E m \in msgs : Analyze(m)
    \/ \E t \in scans : StoreScan(t)
    \/ Tick

SpecSync == InitSync /\ [][NextSync]_vars

-----------------------------------------------------------------------------
(* The functions of the fingerprint engine, applied to inputs of their own *)

\* digests cut at lengths around header + body: a header of 8 characters and a
\* body of two runs of 3-character blocks
BandPattern(x, y, k) == "T1A0B1C2" \o Rep(x, k) \o Rep(y, 25 - k)
BandLengths == {0, 8, 40, 71, 72, 73, 83}
BandInputs ==
    {SubSeq(BandPattern(x, y, k), 1, L) :
        x \in {"ABC", "0F9"}, y \in {"ABC", "0F9"}, k \in {0, 1, 2, 7}, L \in BandLengths}

Applied(op, body) == [Resp(op, "", "", 0, "", NoRes, <<>>, <<>>) EXCEPT !.body = body]

\* bodies put together from at most three pieces
BodyPieces == {" ", "\n", "\r", "Ab", "12345", "6789", "style=\"x\"", "?utm_a=1"}
BodyTexts ==
    {""} \cup BodyPieces \cup {a \o b : a \in BodyPieces, b \in BodyPieces}
         \cup {a \o b \o c : a \in BodyPieces, b \in BodyPieces, c \in BodyPieces}
BodyHtmls == {"", "<IMG SRC=\"u\">"}

\* references and candidates that parse (72 characters with the T1 prefix)
\* and that do not (cut short, or one character too long)
BatchRefs == {DA, DB, DT, DA \o "A"}
BatchCandidates == SUBSET {DA, DB, DC, DT, DB \o "B"}
LocalSigs == {TS(h, "normalized") : h \in {DA, DB, DE, DT, DA \o "A", Near(thresholdNormalized)}}
\* distances up to the widest soft threshold, under the thresholds of the
\* five types and their soft thresholds
ConfidenceArgs ==
    {<<d, t + s>> : d \in 0..(thresholdNormalized + softSpamDelta),
                    t \in {getThresholdForType(ty) : ty \in SigTypes},
                    s \in {0, softSpamDelta}}

\* a call waiting to be made, and the function applied to its arguments
Call(fn, args) == Applied("call", [fn |-> fn, args |-> args])
Calls ==
    {Call("extractBands_6_3", <<sig>>) : sig \in BandInputs}
       \cup {Call("normalizeEmailBody", <<text, html>>) : text \in BodyTexts, html \in BodyHtmls}
       \cup {Call("computeDistanceBatch", <<ref, digests>>) :
                 ref \in BatchRefs, digests \in BatchCandidates}
       \cup {Call("Layer3", <<ts>>) : ts \in LocalSigs}
       \cup {Call("getConfidenceForMatch", a) : a \in ConfidenceArgs}
Called(fn) == last.op = "call" /\ last.body.fn = fn

\* extractBands_6_3(sig)
ExtractBands ==
    /\ Called("extractBands_6_3")
    /\ last' = Applied("bands", [sig |-> last.body.args[1],
                                 bands |-> extractBands_6_3(last.body.args[1])])
    /\ UNCHANGED <<rdb, scans, hist, procs, tally, msgs, stats>>

\* normalizeEmailBody(text, html)
Normalize ==
    /\ Called("normalizeEmailBody")
    /\ last' = Applied("normalize",
                       [text |-> last.body.args[1], html |-> last.body.args[2],
                        out |-> normalizeEmailBody(last.body.args[1], last.body.args[2])])
    /\ UNCHANGED <<rdb, scans, hist, procs, tally, msgs, stats>>

\* computeDistanceBatch(ref, digests, digests, false)
DistanceBatch ==
    /\ Called("computeDistanceBatch")
    /\ last' = Applied("distances",
                       [ref |-> last.body.args[1], digests |-> last.body.args[2],
                        r |-> computeDistanceBatch(last.body.args[1], last.body.args[2])])
    /\ UNCHANGED <<rdb, scans, hist, procs, tally, msgs, stats>>

\* the Confidence field of a verdict of Step 2: computed at the match from
\* the distance and the threshold, or the soft threshold, of the type
ConfidenceOf(fr) ==
    IF fr.Label = "local_spam"
    THEN getConfidenceForMatch(fr.Distance, getThresholdForType(fr.MatchType))
    ELSE IF fr.Label = "local_soft"
    THEN getConfidenceForMatch(fr.Distance, getThresholdForType(fr.MatchType) + softSpamDelta)
    ELSE Frac(0, 1)

\* Step 2 of analyzeHandler for one signature, the running verdict being allow
LocalMatch ==
    /\ Called("Layer3")
    /\ last' = Applied("layer3",
                       [ts |-> last.body.args[1],
                        outs |-> {[fr |-> o.fr, calls |-> o.calls, layers |-> o.layers,
                                   confidence |-> ConfidenceOf(o.fr)] :
                                     o \in Layer3(rdb, Result("allow", "", FALSE, 0, ""),
                                                  last.body.args[1])}])
    /\ UNCHANGED <<rdb, scans, hist, procs, tally, msgs, stats>>

\* getConfidenceForMatch(distance, threshold)
Confidence ==
    /\ Called("getConfidenceForMatch")
    /\ last' = Applied("confidence",
                       [distance |-> last.body.args[1], threshold |-> last.body.args[2],
                        confidence |-> getConfidenceForMatch(last.body.args[1],
                                                             last.body.args[2])])
    /\ UNCHANGED <<rdb, scans, hist, procs, tally, msgs, stats>>

\* one call of one function, on a store that has learned M1
InitEngine ==
    /\ rdb \in Learned(FreshStore, M1)
    /\ scans = {}
    /\ last \in Calls
    /\ msgs = {M1}
    /\ hist = [ev |-> <<[id |-> M1.id, type |-> "spam", age |-> 0]>>,
               first |-> [id \in MsgIds |-> "none"]]
    /\ procs = [p \in 1..NProcs |-> Idle]
    /\ tally = NoTally
    /\ stats = NoStats

NextEngine ==
    \/ ExtractBands
    \/ Normalize
    \/ DistanceBatch
    \/ LocalMatch
    \/ Confidence

SpecEngine == InitEngine /\ [][NextEngine]_vars

-----------------------------------------------------------------------------
(* /report served by concurrent workers, one store command (or pipeline) a step *)

Passed(t, id, type) ==
    IF <<id, type>> \in DOMAIN t.passed THEN t.passed[<<id, type>>] ELSE 0
CountPass(t, id, type) ==
    [t EXCEPT !.passed = [k \in DOMAIN t.passed \cup {<<id, type>>} |->
                            IF k = <<id, type>> THEN Passed(t, id, type) + 1
                            ELSE t.passed[k]]]
CountAdj(t, d, type) ==
    [t EXCEPT !.adj[d] = IF type = "spam" THEN [@ EXCEPT !.spam = @ + 1]
                         ELSE [@ EXCEPT !.ham = @ + 1]]

\* the next round of the loop over scanData.Hashes, or its end
Advance(w) ==
    IF w.i < Len(w.hashes) THEN [w EXCEPT !.pc = "look", !.i = @ + 1]
    ELSE [w EXCEPT !.pc = "post"]

\* SETNX on the duplicate-suppression key; 409 when it is held
RGate(p, id, type) ==
    /\ procs[p].pc = "idle"
    /\ LET g == SetNXReport(rdb, id, type)
       IN /\ rdb' = g.db
          /\ IF g.added
             THEN /\ procs' = [procs EXCEPT ![p] = [Idle EXCEPT !.pc = "scan", !.id = id,
                                                                !.type = type]]
                  /\ last' = NoResp
                  /\ tally' = CountPass(tally, id, type)
             ELSE /\ procs' = procs
                  /\ last' = Resp("report", id, type, 409, "duplicate", NoRes, <<>>, <<>>)
                  /\ tally' = tally
    /\ UNCHANGED <<scans, hist, msgs, stats>>

\* GET of the scan record; 404 without one
RScan(p) ==
    LET w == procs[p]
    IN /\ w.pc = "scan"
       /\ IF ~Exists(rdb, ScanKey(w.id))
          THEN /\ procs' = [procs EXCEPT ![p] = Idle]
               /\ last' = Resp("report", w.id, w.type, 404, "no_scan", NoRes, <<>>, <<>>)
               /\ hist' = hist
          ELSE IF Len(Get(rdb, ScanKey(w.id)).Hashes) = 0
          THEN /\ procs' = [procs EXCEPT ![p] = Idle]
               /\ last' = Resp("report", w.id, w.type, 400, "no_hashes", NoRes, <<>>, <<>>)
               /\ hist' = hist
          ELSE /\ procs' = [procs EXCEPT ![p] = [w EXCEPT !.pc = "look", !.i = 1,
                                    !.hashes = Get(rdb, ScanKey(w.id)).Hashes]]
               /\ last' = NoResp
               /\ hist' = Record(hist, w.id, w.type)
       /\ UNCHANGED <<rdb, scans, tally, msgs, stats>>

\* the candidates of one hash (pipelined EXISTS and SMEMBERS) and the decision
RLook(p) ==
    LET w == procs[p]
    IN /\ w.pc = "look"
       /\ \E best \in BestMatch(rdb, w.hashes[w.i]) :
            LET target == TargetHash(w.hashes[w.i], best)
                near   == best.dist <= 70
            IN IF w.type = "spam" \/ near
               THEN /\ procs' = [procs EXCEPT ![p] = [w EXCEPT !.pc = "incr", !.target = target,
                                         !.near = near,
                                         !.skip = @ \/ (w.type = "spam" /\ near)]]
                    /\ tally' = CountAdj(tally, target, w.type)
               ELSE /\ procs' = [procs EXCEPT ![p] = Advance(w)]
                    /\ tally' = tally
       /\ last' = NoResp
       /\ UNCHANGED <<rdb, scans, hist, msgs, stats>>

\* INCRBY / DECRBY of the target's score
RIncr(p) ==
    LET w == procs[p]
    IN /\ w.pc = "incr"
       /\ rdb' = IF w.type = "spam" THEN SpamIncr(rdb, w.target) ELSE HamDecr(rdb, w.target)
       /\ procs' = [procs EXCEPT ![p] = [w EXCEPT !.pc = "refresh"]]
       /\ last' = NoResp
       /\ UNCHANGED <<scans, hist, tally, msgs, stats>>

\* the pipeline that adds the bands and refreshes the expiries
RRefresh(p) ==
    LET w == procs[p]
    IN /\ w.pc = "refresh"
       /\ rdb' = IF w.type = "spam" THEN SpamRefresh(rdb, w.target)
                 ELSE HamRefresh(rdb, w.target)
       /\ procs' = [procs EXCEPT ![p] = Advance(w)]
       /\ last' = NoResp
       /\ UNCHANGED <<scans, hist, tally, msgs, stats>>

\* the answer: skipped, or what the POST to the oracle gives
RPost(p) ==
    LET w == procs[p]
    IN /\ w.pc = "post"
       /\ \E o \in Forward(rdb, w.type, w.skip, w.hashes) :
            last' = Resp("report", w.id, w.type, o.code, o.status, NoRes, <<>>, o.oracle)
       /\ procs' = [procs EXCEPT ![p] = Idle]
       /\ UNCHANGED <<rdb, scans, hist, tally, msgs, stats>>

\* atomic.AddInt64(&c, 1) on the request path.  The handlers never read the
\* counters, so the runs of the stats worker see the handlers as their
\* increments only.
Bump(c) ==
    /\ SumOver(stats.total, Len(Counters)) < MaxIncr
    /\ stats' = [stats EXCEPT !.cnt[c] = @ + 1, !.total[c] = @ + 1]
    /\ UNCHANGED <<rdb, scans, last, hist, procs, tally, msgs>>

\* the ticker fires and the worker swaps the counters out one by one; with
\* all six values at zero the cycle ends there
StatsSwap ==
    /\ stats.pc \in {"wait", "swap"}
    /\ LET k   == IF stats.pc = "wait" THEN 1 ELSE stats.i
           st1 == swapCounter(stats, Counters[k])
       IN stats' = IF k < Len(Counters) THEN [st1 EXCEPT !.pc = "swap", !.i = k + 1]
                   ELSE IF NothingHeld(st1) THEN [st1 EXCEPT !.pc = "wait", !.i = 0]
                   ELSE [st1 EXCEPT !.pc = "post", !.i = 0]
    /\ UNCHANGED <<rdb, scans, last, hist, procs, tally, msgs>>

\* the POST of the held values
StatsPost ==
    /\ stats.pc = "post"
    /\ \E a \in StatsAnswers :
          stats' = IF StatsFailed(a)
                   THEN [stats EXCEPT !.pc = "add", !.i = 1, !.failed = TRUE]
                   ELSE [stats EXCEPT !.pc = "wait", !.held = Zero,
                                      !.acked = [c \in Range(Counters) |->
                                                    stats.acked[c] + stats.held[c]]]
    /\ UNCHANGED <<rdb, scans, last, hist, procs, tally, msgs>>

\* after a failed POST the held values are added back one by one
StatsAdd ==
    /\ stats.pc = "add"
    /\ LET st1 == addCounter(stats, Counters[stats.i])
       IN stats' = IF stats.i < Len(Counters) THEN [st1 EXCEPT !.i = @ + 1]
                   ELSE [st1 EXCEPT !.pc = "wait", !.i = 0]
    /\ UNCHANGED <<rdb, scans, last, hist, procs, tally, msgs>>

InitStats == Start({{M1}})

NextStats ==
    \/ \E c \in Range(Counters) : Bump(c)
    \/ StatsSwap
    \/ StatsPost
    \/ StatsAdd

SpecStats == InitStats /\ [][NextStats]_vars

InitConc == Start({{M2}, {M1, M4}})

NextConc ==
    \/ \E m \in msgs : Analyze(m)
    \/ \E t \in scans : StoreScan(t)
    \/ \E p \in 1..NProcs, id \in MsgIds, type \in ReportTypes : RGate(p, id, type)
    \/ \E p \in 1..NProcs : RScan(p)
    \/ \E p \in 1..NProcs : RLook(p)
    \/ \E p \in 1..NProcs : RIncr(p)
    \/ \E p \in 1..NProcs : RRefresh(p)
    \/ \E p \in 1..NProcs : RPost(p)

SpecConc == InitConc /\ [][NextConc]_vars

-----------------------------------------------------------------------------
(* Vocabulary of the properties *)

IsAnalyze(r) == r.op = "analyze"

\* a report that got past the duplicate gate and found its scan record
Accepted(r) == r.op = "report" /\ r.status \in {"skipped_oracle", "proxied", "oracle_unreachable"}
AcceptedAs(r, id, type) == Accepted(r) /\ r.id = id /\ r.rtype = type

Score(db, d) == GetInt(db, LocalScorePrefix \o d)

\* the digests of the local index, and a digest's presence under all its bands
LocalIndex(db) == UNION {db[k].v : k \in {x \in DOMAIN db : HasPrefix(x, LocalFragPrefix)}}
Indexed(db, d) == \A b \in Bands(d) : d \in SMembers(db, LocalFragPrefix \o b)

\* the hashes of the scan record of a message-id
Stored(db, id) == IF Exists(db, ScanKey(id)) THEN Get(db, ScanKey(id)).Hashes ELSE <<>>

\* no digest of the local index lies within 70 of d
Novel(db, d) == \A x \in LocalIndex(db) : Diff(d, x) > 70

\* the oracle's verdicts kept by the node
OracleCache(db) ==
    [k \in {x \in DOMAIN db : HasPrefix(x, "mi:oracle_cache:")
                                \/ HasPrefix(x, OracleCacheFragPrefix)} |-> db[k]]

-----------------------------------------------------------------------------
(* C3: what a spam report learns *)

\* C3 as stated: after an accepted spam report on a message-id, every stored
\* signature D with no neighbour within 70 in the local index before the
\* report is under all its bands and has a score >= spam_weight.
C3_Original ==
    [][\A id \in MsgIds :
         AcceptedAs(last', id, "spam") =>
            \A d \in Range(Stored(rdb, id)) :
               Novel(rdb, d) => Indexed(rdb', d) /\ Score(rdb', d) >= spamWeight]_vars

-----------------------------------------------------------------------------
(* C4: the score gate of Layer 3 *)

\* C4: a local_spam or local_soft verdict of /analyze rests on a digest of the
\* local index whose score is > 0, at the reported distance from a signature of
\* the message and within that signature's (soft) threshold; candidates with a
\* score <= 0 or absent give no such verdict.
C4_ScoreGate ==
    \A m \in msgs :
       (IsAnalyze(last) /\ last.id = m.id /\ last.res.Label \in {"local_spam", "local_soft"})
          => \E i \in DOMAIN m.sigs, h \in LocalIndex(rdb) :
                /\ Score(rdb, h) > 0
                /\ Diff(m.sigs[i].Hash, h) = last.res.Distance
                /\ last.res.MatchType = m.sigs[i].Type
                /\ last.res.Distance <= getThresholdForType(m.sigs[i].Type)
                                          + (IF last.res.Label = "local_soft"
                                             THEN softSpamDelta ELSE 0)

\* an analysis that met a candidate within the threshold whose score is <= 0
C4_Witness ==
    /\ IsAnalyze(last) /\ last.res.Action = "allow" /\ last.res.ProximityMatch
    /\ \E i \in DOMAIN last.hashes, h \in LocalIndex(rdb) :
          Diff(last.hashes[i], h) <= 70 /\ Score(rdb, h) <= 0

-----------------------------------------------------------------------------
(* C5, C6: ham reports *)

\* the digests the stored signatures of id resolve to (nearest candidate, <= 70)
NearTargets(db, id) ==
    {best.hash : best \in {b \in UNION {BestMatch(db, h) : h \in Range(Stored(db, id))} :
                              b.dist <= 70}}

\* C5 as stated: an accepted ham report whose stored signatures yield a near
\* neighbour D* decreases lg_s:D* by exactly ham_weight, however many stored
\* signatures resolve to D*.
C5_Original ==
    [][\A id \in MsgIds :
         AcceptedAs(last', id, "ham") =>
            \A d \in NearTargets(rdb, id) : Score(rdb', d) = Score(rdb, d) - hamWeight]_vars

\* the history is exactly: spam report of id, then ham report of id, both
\* within the retention
SpamThenHam(h, id) ==
    /\ Len(h.ev) = 2
    /\ h.ev[1].id = id /\ h.ev[1].type = "spam" /\ h.ev[1].age < RetentionTicks
    /\ h.ev[2].id = id /\ h.ev[2].type = "ham" /\ h.ev[2].age < RetentionTicks

\* C6 as stated: after an accepted spam report and then a ham report for the
\* same message-id, the learned digest's score is spam_weight - ham_weight, and
\* re-analysing the message gives allow with proximity_match = true.
C6_Original ==
    \A m \in msgs :
       SpamThenHam(hist, m.id) =>
          /\ \A d \in Digests :
                Exists(rdb, LocalScorePrefix \o d) => Score(rdb, d) = spamWeight - hamWeight
          /\ (IsAnalyze(last) /\ last.id = m.id)
                => last.res.Action = "allow" /\ last.res.ProximityMatch

-----------------------------------------------------------------------------
(* C7: which reports reach the oracle *)

\* some stored signature of id has a digest of the local index within 70
KnownLocally(db, id) == \E d \in Range(Stored(db, id)) : ~Novel(db, d)

\* C7 as stated: a spam report is answered skipped_oracle only when some stored
\* signature had a neighbour within 70 in the local index before the report
\* started; otherwise, and for every accepted ham report, the stored signatures
\* are POSTed to the oracle.
C7_Original ==
    [][\A id \in MsgIds, type \in ReportTypes :
         AcceptedAs(last', id, type) =>
            /\ last'.status = "skipped_oracle" => (type = "spam" /\ KnownLocally(rdb, id))
            /\ (type = "ham" \/ ~KnownLocally(rdb, id)) => last'.oracle = Stored(rdb, id)]_vars

-----------------------------------------------------------------------------
(* C9: bands and scores *)

\* C9 as stated: every digest that is a member of some lg_f:<band> set has an
\* existing lg_s:<digest> key.
C9_Original == \A d \in LocalIndex(rdb) : Exists(rdb, LocalScorePrefix \o d)

-----------------------------------------------------------------------------
(* C2: fresh spam learning *)

\* a spam report of id was processed within the retention, after a first
\* analysis that said allow without proximity, and no ham report since
SpamReported(h, id) ==
    /\ h.first[id] = "clean"
    /\ \E i \in DOMAIN h.ev :
          /\ h.ev[i].id = id /\ h.ev[i].type = "spam" /\ h.ev[i].age < RetentionTicks
          /\ \A j \in (i + 1)..Len(h.ev) : h.ev[j].type # "ham"

\* the same, the spam reports of id being the only reports processed so far
OnlySpamReported(h, id) ==
    /\ h.first[id] = "clean"
    /\ h.ev # <<>>
    /\ \A i \in DOMAIN h.ev : h.ev[i].id = id /\ h.ev[i].type = "spam"
    /\ h.ev[Len(h.ev)].age < RetentionTicks

LocalSpamAtZero(res) ==
    res.Action = "spam" /\ res.Label = "local_spam" /\ res.ProximityMatch /\ res.Distance = 0

-----------------------------------------------------------------------------
(* C10: the oracle does not answer *)

\* Layer 4 alone responds to sig: >= 4 of its bands under mi_f:*, fewer than 4
\* under lg_f:* and under oc_f:*, and no verdict cached for it
OnlyOracleIndex(db, sig) ==
    /\ Cardinality(MatchedKeys(db, FragKeyPrefix, sig)) >= 4
    /\ Cardinality(MatchedKeys(db, LocalFragPrefix, sig)) < 4
    /\ Cardinality(MatchedKeys(db, OracleCacheFragPrefix, sig)) < 4
    /\ ~Exists(db, OracleCacheKey(sig))

\* C10: when every POST to the oracle fails during the /analyze of a message
\* whose signatures match >= 4 bands in mi_f:* only, the response is
\* action=allow with proximity_match=true and nothing is written under
\* mi:oracle_cache:* or oc_f:*.
C10_OracleDown ==
    [][\A m \in msgs :
         (/\ IsAnalyze(last') /\ last'.id = m.id
          /\ \A i \in DOMAIN m.sigs : OnlyOracleIndex(rdb, m.sigs[i].Hash)
          /\ last'.oracle = [i \in DOMAIN m.sigs |-> [sig |-> m.sigs[i].Hash, err |-> TRUE, code |-> 0, answer |-> ""]])
            => /\ last'.res.Action = "allow" /\ last'.res.ProximityMatch
               /\ OracleCache(rdb') = OracleCache(rdb)]_vars

\* M1 analysed with its bands synced and the oracle down
C10_Witness ==
    /\ IsAnalyze(last) /\ last.id = M1.id
    /\ last.oracle = <<[sig |-> DA, err |-> TRUE, code |-> 0, answer |-> ""]>>
    /\ last.res.Action = "allow" /\ last.res.ProximityMatch
    /\ Cardinality(MatchedKeys(rdb, FragKeyPrefix, DA)) >= 4
    /\ DOMAIN OracleCache(rdb) = {}

-----------------------------------------------------------------------------
(* C1: the duplicate gate under concurrency *)

\* the workers past the gate for (id, type)
Holders(id, type) ==
    {p \in 1..NProcs : procs[p].pc # "idle" /\ procs[p].id = id /\ procs[p].type = type}

\* C1: of the /report calls for one (message-id, type) made while the key
\* mi:rpt:<sha1>:<type> lives, the first passes the SETNX gate and no other
\* does; a call answered 409 duplicate leaves the store as it is (lg_s and lg_f
\* included), decides no score adjustment and posts nothing to the oracle, so
\* at most one worker ever learns for that (message-id, type).
C1_SingleGate ==
    [][/\ \A id \in MsgIds, type \in ReportTypes :
            /\ Passed(tally', id, type) <= 1
            /\ Passed(tally', id, type) = 1 <=> Exists(rdb', ReportKey(id, type))
            /\ Cardinality(Holders(id, type)') <= 1
       /\ (last'.op = "report" /\ last'.code = 409)
            => /\ last'.status = "duplicate" /\ last'.oracle = <<>>
               /\ rdb' = rdb /\ tally' = tally /\ procs' = procs
               /\ Passed(tally, last'.id, last'.rtype) = 1]_vars

\* a duplicate answered 409 while the call that passed the gate is still learning
C1_Witness ==
    /\ last.op = "report" /\ last.code = 409
    /\ \E p \in Holders(last.id, last.rtype) : procs[p].pc \in {"incr", "refresh"}

-----------------------------------------------------------------------------
(* C8: no lost score update *)

\* what worker p is about to add to the score of d
Pending(p, d) ==
    IF procs[p].pc = "incr" /\ procs[p].target = d
    THEN IF procs[p].type = "spam" THEN spamWeight ELSE 0 - hamWeight
    ELSE 0

RECURSIVE PendingSum(_, _)
PendingSum(n, d) == IF n = 0 THEN 0 ELSE Pending(n, d) + PendingSum(n - 1, d)

\* C8: under every interleaving of concurrent reports, the score of a digest
\* D is (spam adjustments decided for D) x spam_weight - (ham adjustments
\* decided for D) x ham_weight, less the adjustments not yet issued; once no
\* worker is between its decision and its INCRBY / DECRBY, nothing is missing.
C8_NoLostUpdate ==
    \A d \in Digests :
       Score(rdb, d) + PendingSum(NProcs, d)
          = tally.adj[d].spam * spamWeight - tally.adj[d].ham * hamWeight

\* a spam and a ham adjustment of the same digest about to be issued together
C8_Witness ==
    \E p, q \in 1..NProcs :
       /\ procs[p].pc = "incr" /\ procs[q].pc = "incr"
       /\ procs[p].type = "spam" /\ procs[q].type = "ham"
       /\ procs[p].target = procs[q].target
       /\ Score(rdb, procs[p].target) > 0

-----------------------------------------------------------------------------
(* C11: the oracle answers with an error status *)

\* the POSTs of the analysis all got a response whose status is not 2xx
AllNon2xx(calls) ==
    /\ calls # <<>>
    /\ \A i \in DOMAIN calls : ~calls[i].err /\ calls[i].code \notin 200..299

\* C11 as stated: when the oracle's /analyze answers with a non-2xx status,
\* whatever the body, the analysis gives no spam verdict for it, sets
\* proximity_match = true and writes nothing under mi:oracle_cache:* or oc_f:*.
C11_Original ==
    [][(IsAnalyze(last') /\ AllNon2xx(last'.oracle))
          => /\ last'.res.Action # "spam" /\ last'.res.ProximityMatch
             /\ OracleCache(rdb') = OracleCache(rdb)]_vars

-----------------------------------------------------------------------------
(* C12: the oracle's verdicts are kept *)

\* key k lives with value action a and d minutes to go
Cached(db, sig, a, d) ==
    /\ Exists(db, OracleCacheKey(sig))
    /\ Get(db, OracleCacheKey(sig)).Action = a
    /\ db[OracleCacheKey(sig)].ttl = Ticks(d)

\* sig is under oc_f:<b>, d minutes to go, for every band b of sig
CacheIndexed(db, sig, d) ==
    \A b \in Bands(sig) :
       /\ sig \in SMembers(db, OracleCacheFragPrefix \o b)
       /\ db[OracleCacheFragPrefix \o b].ttl = Ticks(d)

\* the POSTs made for sig, and the layers the signatures with that hash went through
CallsFor(r, sig) == {i \in DOMAIN r.oracle : r.oracle[i].sig = sig}
VisitsOf(r, m, sig) == {v \in Range(r.visits) : m.sigs[v.sig].Hash = sig}

\* C12: an oracle answer spam for S in Layer 4 is stored under
\* mi:oracle_cache:<S> and S is added to oc_f:<b> for every band b of S, both
\* for 1 h, and the analysis ends with spam; a non-spam answer is stored under
\* mi:oracle_cache:<S> for 5 min.  While mi:oracle_cache:<S> lives, an analysis
\* containing S makes no POST for S; when the verdict kept is spam the analysis
\* returns spam and S is answered in Layer 1.
C12_OracleCache ==
    [][\A m \in msgs :
         (IsAnalyze(last') /\ last'.id = m.id) =>
            /\ \A i \in DOMAIN last'.oracle :
                  LET c == last'.oracle[i]
                  IN /\ c.answer = "spam" =>
                          /\ Cached(rdb', c.sig, "spam", CacheSpamTTL)
                          /\ CacheIndexed(rdb', c.sig, CacheSpamTTL)
                          /\ last'.res.Action = "spam" /\ i = Len(last'.oracle)
                     /\ c.answer \notin {"", "spam"} =>
                          Cached(rdb', c.sig, c.answer, CacheOtherTTL)
            /\ \A j \in DOMAIN m.sigs :
                  LET S == m.sigs[j].Hash
                  IN Exists(rdb, OracleCacheKey(S)) =>
                        /\ CallsFor(last', S) = {}
                        /\ Get(rdb, OracleCacheKey(S)).Action = "spam" =>
                              /\ last'.res.Action = "spam"
                              /\ \A v \in VisitsOf(last', m, S) : v.layers = <<1>>]_vars

\* M3 analysed again while the oracle's verdicts are kept: allow for DE (no
\* POST in Layer 4), spam for DA (answered in Layer 1)
C12_Witness ==
    /\ IsAnalyze(last) /\ last.id = M3.id
    /\ [k \in DOMAIN last.visits |-> last.visits[k].layers] = <<<<1, 2, 3, 4>>, <<1>>>>
    /\ last.oracle = <<>>
    /\ last.res.Action = "spam"

-----------------------------------------------------------------------------
(* C13: the thresholds *)

\* the distances from sig to the digests of the local index with a score > 0
PositiveDists(db, sig) == {Diff(sig, x) : x \in {y \in LocalIndex(db) : Score(db, y) > 0}}

-----------------------------------------------------------------------------
(* C14: LSH candidates *)

\* the bands of sig whose key exists under the prefix, and those under which
\* the stored digest x is found
KeysOf(db, prefix, sig) == {b \in Bands(sig) : Exists(db, prefix \o b)}
Holding(db, prefix, sig, x) == {b \in Bands(sig) : x \in SMembers(db, prefix \o b)}
SharedBands(a, b) == Bands(a) \cap Bands(b)

\* the prefix of the index a verdict was taken from
IndexOf(label) ==
    IF label \in {"local_spam", "local_soft"} THEN LocalFragPrefix ELSE OracleCacheFragPrefix
IndexLabels == {"local_spam", "local_soft", "oracle_cache_match", "oracle_cache_soft"}

\* the digests other than its own stored signatures whose score the report moved
Targets(id) ==
    {x \in (Digests \cup NearDigests) \ Range(Stored(rdb, id)) : Score(rdb', x) # Score(rdb, x)}

-----------------------------------------------------------------------------
(* C15: the whitelist *)

\* the sender's domain, or address, is listed
Listed(db, m) ==
    m.dom \in SMembers(db, WhitelistDomain) \/ m.addr \in SMembers(db, WhitelistEmail)
ReasonFor(db, m) ==
    IF m.dom \in SMembers(db, WhitelistDomain) THEN "domain:" \o m.dom ELSE "email:" \o m.addr

\* C15: when the sender's email or domain is in mi:whitelist:email /
\* mi:whitelist:domain, /analyze returns action=allow, label=whitelisted,
\* whitelisted=true with the matching reason, computes no signature, visits no
\* layer, contacts no oracle and writes no key (no mi:msgid:* record is
\* written or left to be written); when it is not (never listed, or removed
\* with DELETE /whitelist) the message is analysed normally: its signatures
\* are returned, searched, and handed over for the scan record.  DELETE
\* /whitelist removes the entry, POST /whitelist adds it.
C15_Whitelist ==
    [][/\ \A m \in msgs :
            (IsAnalyze(last') /\ last'.id = m.id) =>
               IF Listed(rdb, m)
               THEN /\ last'.res.Action = "allow" /\ last'.res.Label = "whitelisted"
                    /\ last'.whitelisted /\ last'.reason = ReasonFor(rdb, m)
                    /\ last'.hashes = <<>> /\ last'.visits = <<>> /\ last'.oracle = <<>>
                    /\ rdb' = rdb /\ scans' = scans
               ELSE /\ ~last'.whitelisted /\ last'.res.Label # "whitelisted"
                    /\ last'.hashes = Hashes(m) /\ Len(last'.visits) >= 1
                    /\ [id |-> m.id, hashes |-> Hashes(m)] \in scans'
       /\ (last'.op = "whitelist" /\ last'.code = 200) =>
            \A m \in msgs :
               /\ last'.reason = "domain:" \o m.dom
                     => (m.dom \in SMembers(rdb', WhitelistDomain)) = (last'.rtype = "POST")
               /\ last'.reason = "email:" \o m.addr
                     => (m.addr \in SMembers(rdb', WhitelistEmail)) = (last'.rtype = "POST")]_vars

\* a message the local index answers spam to, from a sender listed by
\* address: allowed, and no scan record is there
C15_Witness ==
    /\ IsAnalyze(last) /\ last.whitelisted /\ last.reason = "email:a@example.com"
    /\ Score(rdb, DA) > 0 /\ Indexed(rdb, DA)
    /\ ~Exists(rdb, ScanKey(last.id)) /\ scans = {}

-----------------------------------------------------------------------------
(* C16: when the oracle is asked *)

\* some member of the oc_f:* keys of sig, 4 of them at least, lies within T
CacheNear(db, sig, T) ==
    /\ Cardinality(KeysOf(db, OracleCacheFragPrefix, sig)) >= 4
    /\ \E b \in KeysOf(db, OracleCacheFragPrefix, sig) :
          \E x \in SMembers(db, OracleCacheFragPrefix \o b) : Diff(sig, x) <= T

\* C16: the oracle's /analyze is called for a signature only if no spam
\* verdict is cached for it (Layer 1), Layer 2 has no candidate within the
\* threshold, fewer than 4 of its band keys exist under lg_f:* and at least 4
\* under mi_f:*; with no key under mi_f:* an /analyze never contacts the oracle.
C16_OracleGate ==
    [][\A m \in msgs :
         (IsAnalyze(last') /\ last'.id = m.id) =>
            /\ \A i \in DOMAIN last'.oracle :
                  \E j \in DOMAIN m.sigs :
                     LET S == m.sigs[j].Hash
                     IN /\ last'.oracle[i].sig = S
                        /\ ~(Exists(rdb, OracleCacheKey(S))
                               /\ Get(rdb, OracleCacheKey(S)).Action = "spam")
                        /\ ~CacheNear(rdb, S, TypeThreshold[m.sigs[j].Type])
                        /\ Cardinality(KeysOf(rdb, LocalFragPrefix, S)) < 4
                        /\ Cardinality(KeysOf(rdb, FragKeyPrefix, S)) >= 4
            /\ (\A k \in DOMAIN rdb : ~HasPrefix(k, FragKeyPrefix)) => last'.oracle = <<>>]_vars

\* M8: DE is settled in Layer 3, DC (3 band keys under lg_f:*, all its bands
\* under mi_f:*) is sent to the oracle
C16_Witness ==
    /\ IsAnalyze(last) /\ last.id = M8.id
    /\ [k \in DOMAIN last.visits |-> last.visits[k].layers] = <<<<1, 2, 3>>, <<1, 2, 3, 4>>>>
    /\ Len(last.oracle) = 1 /\ last.oracle[1].sig = DC

-----------------------------------------------------------------------------
(* C17, C18: the order of the search *)

Rank(t) == CHOOSE r \in DOMAIN ExtractionOrder : ExtractionOrder[r] = t
InExtractionOrder(sigs) ==
    \A i, j \in DOMAIN sigs : i < j => Rank(sigs[i].Type) < Rank(sigs[j].Type)

\* the keys the search may write for a signature
Touch(sig) ==
    {OracleCacheKey(sig)}
       \cup {LocalFragPrefix \o b : b \in Bands(sig)}
       \cup {OracleCacheFragPrefix \o b : b \in Bands(sig)}
Changed(db1, db2) ==
    {k \in DOMAIN db1 \cup DOMAIN db2 :
        k \notin DOMAIN db1 \/ k \notin DOMAIN db2 \/ db1[k] # db2[k]}

-----------------------------------------------------------------------------
(* C19: the proximity skip *)

\* C19: when at least 4 band keys of a signature exist under lg_f:* as its
\* local lookup starts, the signature ends in Layer 3: Layer 4 is not visited
\* and no POST is made to the oracle for it, and proximity_match is true
\* after that signature (set by the verdict of a candidate, or by the skip).
C19_ProximitySkip ==
    [][\A m \in msgs :
         (IsAnalyze(last') /\ last'.id = m.id) =>
            \A k \in DOMAIN last'.visits :
               LET v == last'.visits[k]
                   S == m.sigs[k].Hash
               IN (Cardinality(KeysOf(rdb, LocalFragPrefix, S)) >= 4 /\ Len(v.layers) >= 3)
                     => /\ v.layers = <<1, 2, 3>>
                        /\ CallsFor(last', S) = {}
                        /\ v.prox]_vars

\* M3 with the scores of its digests at or below 0: DE has its band keys
\* under lg_f:* and 4 under mi_f:*, ends in Layer 3 with proximity only, and
\* the oracle is not asked
C19_Witness ==
    /\ IsAnalyze(last) /\ last.id = M3.id
    /\ last.visits[1].layers = <<1, 2, 3>> /\ last.visits[1].action = "allow"
    /\ last.visits[1].prox
    /\ Cardinality(KeysOf(rdb, FragKeyPrefix, DE)) >= 4
    /\ last.oracle = <<>>

-----------------------------------------------------------------------------
(* C20: what the response aggregates *)

\* C20 as stated: once a signature of an analysis has set proximity_match to
\* true, the response carries proximity_match = true whatever later
\* signatures produce, a spam verdict taken from the oracle or its cache
\* included; with no hit in any layer the response is allow with
\* proximity_match = false.
C20_Original ==
    (IsAnalyze(last) /\ ~last.whitelisted) =>
       /\ (\E k \in DOMAIN last.visits : last.visits[k].prox) => last.res.ProximityMatch
       /\ (\A k \in DOMAIN last.visits : ~last.visits[k].prox /\ last.visits[k].action = "allow")
             => last.res = Result("allow", "", FALSE, 0, "")

-----------------------------------------------------------------------------
(* C21: analysing a message again *)

\* the POSTs of a second analysis were all made, and answered alike, in the first
SameAnswers(calls, before) == Range(calls) \subseteq Range(before)

\* the digests of the local index in the hard and in the soft range of a
\* signature, with a score > 0
InRange(db, ts, lo, hi) ==
    {h \in Members(db, MatchedKeys(db, LocalFragPrefix, ts.Hash)) :
        Diff(ts.Hash, h) >= lo /\ Diff(ts.Hash, h) <= hi /\ Score(db, h) > 0}

\* C21: after /analyze answered for a message, analysing the same message
\* again on the store as that analysis left it gives the same hashes and the
\* same top-level action, in whatever order the candidates of a lookup are
\* enumerated (the oracle answering a repeated question as it did before).
C21_Repeatable ==
    \A m \in msgs :
       (IsAnalyze(last) /\ ~last.whitelisted /\ last.id = m.id) =>
          \A o \in analyzeHandler(rdb, m) :
             SameAnswers(o.calls, last.oracle) =>
                /\ Hashes(m) = last.hashes
                /\ o.fr.Action = last.res.Action

\* M3 answered spam while its first signature has a candidate within the
\* threshold and another one in the soft range, both with a score > 0: the
\* enumeration may meet either first
C21_Witness ==
    /\ IsAnalyze(last) /\ last.id = M3.id /\ last.res.Action = "spam"
    /\ InRange(rdb, M3.sigs[1], 0, thresholdNormalized) # {}
    /\ InRange(rdb, M3.sigs[1], thresholdNormalized + 1,
               thresholdNormalized + softSpamDelta) # {}

-----------------------------------------------------------------------------
(* C22: reports without scan data *)

\* the local index and its scores
LocalKeys(db) ==
    {k \in DOMAIN db : HasPrefix(k, LocalFragPrefix) \/ HasPrefix(k, LocalScorePrefix)}
LocalUnchanged(db1, db2) ==
    /\ LocalKeys(db1) = LocalKeys(db2)
    /\ \A k \in LocalKeys(db1) : db1[k] = db2[k]

\* this step served a /report of type for id that came past the duplicate gate
Reported(id, type) ==
    /\ last'.op = "report" /\ last'.id = id /\ last'.rtype = type
    /\ ~Exists(rdb, ReportKey(id, type))

\* C22: a /report that is past the duplicate gate and finds no mi:msgid record
\* for its message-id is answered 404 (no scan data); one whose record holds
\* an empty hashes list is answered 400; in both cases no lg_s:* and no lg_f:*
\* key is changed and no POST is made to the oracle.
C22_NoScanData ==
    [][\A id \in MsgIds, type \in ReportTypes :
         Reported(id, type) =>
            /\ ~Exists(rdb, ScanKey(id)) =>
                  /\ last'.code = 404 /\ last'.status = "no_scan"
                  /\ LocalUnchanged(rdb, rdb') /\ last'.oracle = <<>>
            /\ (Exists(rdb, ScanKey(id)) /\ Len(Stored(rdb, id)) = 0) =>
                  /\ last'.code = 400 /\ last'.status = "no_hashes"
                  /\ LocalUnchanged(rdb, rdb') /\ last'.oracle = <<>>]_vars

\* the report of a mail that gave no signature, answered 400 while the local
\* index holds a digest with its score
C22_Witness ==
    /\ last.op = "report" /\ last.id = M0.id /\ last.code = 400
    /\ Exists(rdb, ScanKey(M0.id)) /\ Stored(rdb, M0.id) = <<>>
    /\ Score(rdb, DA) > 0 /\ Indexed(rdb, DA)

-----------------------------------------------------------------------------
(* C23: learning while the oracle is unreachable *)

\* this step answered 503 to a /report of type for id
Unreachable(id, type) ==
    /\ last'.op = "report" /\ last'.id = id /\ last'.rtype = type
    /\ last'.code = 503 /\ last'.status = "oracle_unreachable"

\* C23: a /report answered 503 because the oracle could not be reached has
\* learned before: of type spam, every stored signature has a target (itself
\* or a digest within 70) whose score rose by at least spam_weight and which is
\* under all its bands; of type ham, every stored signature with a neighbour
\* within 70 has one whose score fell by at least ham_weight.  An analysis of
\* the message after a spam report answered 503 settles its first signature in
\* the local lookup, with spam when the score of that signature is > 0.
C23_LearnsWithoutOracle ==
    [][\A id \in MsgIds, type \in ReportTypes :
         Unreachable(id, type) =>
            /\ Stored(rdb, id) # <<>>
            /\ type = "spam" =>
                  /\ \A d \in Range(Stored(rdb, id)) :
                        \E t \in LocalIndex(rdb') :
                           /\ Diff(d, t) <= 70
                           /\ Score(rdb', t) >= Score(rdb, t) + spamWeight
                           /\ Indexed(rdb', t)
                  /\ \A m \in msgs : m.id = id =>
                        \A o \in analyzeHandler(rdb', m) :
                           /\ o.visits[1].layers = <<1, 2, 3>> /\ o.visits[1].prox
                           /\ Score(rdb', m.sigs[1].Hash) > 0 =>
                                 o.fr.Action = "spam" /\ o.fr.Label = "local_spam"
            /\ type = "ham" =>
                  \A d \in Range(Stored(rdb, id)) :
                     (\E b \in BestMatch(rdb, d) : b.dist <= 70) =>
                        \E t \in LocalIndex(rdb) :
                           /\ Diff(d, t) <= 70
                           /\ Score(rdb', t) <= Score(rdb, t) - hamWeight]_vars

\* the spam report of M3 answered 503, both its signatures learned
C23_Witness ==
    /\ last.op = "report" /\ last.id = M3.id /\ last.rtype = "spam" /\ last.code = 503
    /\ Indexed(rdb, DE) /\ Score(rdb, DE) > 0
    /\ Indexed(rdb, DA) /\ Score(rdb, DA) > 0

-----------------------------------------------------------------------------
(* C24: the scan record of a message-id *)

\* the scan record of id is written or replaced in this step
Rewritten(id) ==
    /\ Exists(rdb', ScanKey(id))
    /\ \/ ~Exists(rdb, ScanKey(id))
       \/ rdb'[ScanKey(id)].v # rdb[ScanKey(id)].v
       \/ rdb'[ScanKey(id)].ttl > rdb[ScanKey(id)].ttl

\* C24: the record mi:msgid:<sha1(id)> is only ever written whole, with the
\* ordered hashes that one /analyze of a mail with that Message-ID computed
\* and returned in its hashes field, whatever other analyses of the same
\* Message-ID are in flight; the key is a function of the Message-ID, so a
\* later write replaces the record; an analysis of a mail without Message-ID
\* writes none.
C24_ScanRecord ==
    [][/\ \A t \in scans' \ scans :
             IsAnalyze(last') /\ last'.id = t.id /\ last'.hashes = t.hashes
       /\ \A id \in MsgIds :
             Rewritten(id) =>
                /\ id # ""
                /\ \E t \in scans \ scans' :
                      /\ t.id = id
                      /\ rdb'[ScanKey(id)].v = [Hashes |-> t.hashes]
                      /\ \E m \in msgs : m.id = id /\ Hashes(m) = t.hashes
       /\ \A t \in scans \ scans' : t.id = "" => rdb' = rdb
       /\ (IsAnalyze(last') /\ last'.id = "") => ~Exists(rdb', ScanKey(""))]_vars

\* both mails with the Message-ID <dup@x> were analysed: the record holds the
\* hashes of MD2 while the goroutine of an analysis of MD1 has yet to run
C24_Witness ==
    /\ Stored(rdb, MD2.id) = Hashes(MD2)
    /\ scans = {[id |-> MD1.id, hashes |-> Hashes(MD1)]}

-----------------------------------------------------------------------------
(* C25: the statistics counters *)

\* C25: whenever the stats worker is between two cycles, each of the six
\* counters satisfies: the values carried by the POSTs the oracle acknowledged
\* plus the current value equal the increments made, however the increments
\* interleave with the swaps, the POST and the adding back; a POST carries at
\* least one value other than zero, and a cycle that swapped out six zeros
\* ends without one.
C25_NothingLost ==
    [][/\ stats'.pc = "wait" =>
             \A c \in Range(Counters) : stats'.acked[c] + stats'.cnt[c] = stats'.total[c]
       /\ (stats.pc = "post" /\ stats'.pc # "post") => ~NothingHeld(stats)
       /\ (stats.pc = "swap" /\ stats'.pc # "swap" /\ NothingHeld(stats'))
             => stats'.pc = "wait"]_vars

\* between two cycles, after a POST failed and a later one was acknowledged:
\* scanCount was incremented while its earlier value was held by the worker
C25_Witness ==
    /\ stats.pc = "wait" /\ stats.failed
    /\ stats.acked["scanCount"] = 2 /\ stats.cnt["scanCount"] = 1

-----------------------------------------------------------------------------
(* C26, C27, C28: the sync cycle *)

\* the answer of the cycle made in this step
SyncFailed(a) == a.err \/ a.code # 200 \/ ~a.json

\* the keys the sync worker owns, and the rest of the store left alone
SyncOwned(k) == HasPrefix(k, FragKeyPrefix) \/ k = MetaVer
RestUnchanged(db1, db2) ==
    \A k \in DOMAIN db1 \cup DOMAIN db2 :
       ~SyncOwned(k) => k \in DOMAIN db1 /\ k \in DOMAIN db2 /\ db1[k] = db2[k]

\* the bands named by the ops, and the action of the last op naming a band
BandsOf(ops) == UNION {Range(ops[i].bands) : i \in DOMAIN ops}
LastOp(ops, b) ==
    LET I == {i \in DOMAIN ops : b \in Range(ops[i].bands)}
    IN ops[CHOOSE i \in I : \A j \in I : j <= i].action

\* C26: a sync cycle whose POST gives no response, or a status other than 200,
\* or a body that does not decode, or a decoded action that is neither
\* UPDATE_DELTA nor RESET_DB, leaves every key of the store as it was,
\* mi_meta:v and the mi_f:* keys included.
C26_SyncFailureFrame ==
    [][last'.op = "sync" =>
          ((SyncFailed(last'.body) \/ last'.body.action \notin {"UPDATE_DELTA", "RESET_DB"})
              => rdb' = rdb)]_vars

\* a cycle answered 500 with an UPDATE_DELTA body, the store taking writes:
\* mi_meta:v is still 0 and the band is not there
C26_Witness ==
    /\ last.op = "sync" /\ last.body.code = 500 /\ last.body.action = "UPDATE_DELTA"
    /\ last.reason = "written"
    /\ GetInt(rdb, MetaVer) = 0 /\ ~Exists(rdb, FragKeyPrefix \o BandSeq(DA)[1])
    /\ LocalIndex(rdb) # {}

\* C27: after a cycle answered UPDATE_DELTA whose writes the store took, every
\* band whose last op is add exists as mi_f:<band> with the value "1", every
\* band whose last op is del is absent, and mi_meta:v = new_seq; after
\* RESET_DB no mi_f:* key exists and mi_meta:v = 0; in both cases every key
\* other than mi_f:* and mi_meta:v is as before.
C27_SyncApplies ==
    [][(last'.op = "sync" /\ last'.reason = "written" /\ ~SyncFailed(last'.body)) =>
          LET a == last'.body
          IN /\ a.action = "UPDATE_DELTA" =>
                   /\ \A b \in BandsOf(a.ops) :
                         IF LastOp(a.ops, b) = "add"
                         THEN Exists(rdb', FragKeyPrefix \o b)
                                 /\ rdb'[FragKeyPrefix \o b] = [v |-> "1", ttl |-> NoTTL]
                         ELSE ~Exists(rdb', FragKeyPrefix \o b)
                   /\ Exists(rdb', MetaVer) /\ Get(rdb', MetaVer) = a.new_seq
                   /\ RestUnchanged(rdb, rdb')
             /\ a.action = "RESET_DB" =>
                   /\ \A k \in DOMAIN rdb' : ~HasPrefix(k, FragKeyPrefix)
                   /\ Exists(rdb', MetaVer) /\ Get(rdb', MetaVer) = 0
                   /\ RestUnchanged(rdb, rdb')]_vars

\* a delta that deletes four bands and then adds them again with the others,
\* applied to a store that holds a local index: the four bands exist
C27_Witness ==
    /\ last.op = "sync" /\ last.reason = "written" /\ ~SyncFailed(last.body)
    /\ last.body.action = "UPDATE_DELTA" /\ Len(last.body.ops) = 2
    /\ last.body.ops[1].action = "del"
    /\ Exists(rdb, FragKeyPrefix \o BandSeq(DA)[1])
    /\ LocalIndex(rdb) # {}

\* C28 as stated: a sync cycle that cannot read mi_meta:v makes no POST to the
\* oracle's /sync and changes no key of the store.
C28_Original ==
    [][(last'.op = "sync" /\ last'.status = "unread") =>
          last'.oracle = <<>> /\ rdb' = rdb]_vars

-----------------------------------------------------------------------------
(* C30: /status *)

-----------------------------------------------------------------------------
(* C29: a digest shorter than 72 characters in a scan record *)

-----------------------------------------------------------------------------
(* C31: the bands of a digest *)

\* C31: for a digest of 72 characters or more extractBands_6_3 returns 20
\* bands, band i being "<i>:" followed by the 6 characters at offset 3*(i-1)
\* of the 64 characters that follow the 8-character header; for a shorter
\* digest it returns the empty list.
C31_Bands ==
    last.op = "bands" =>
       LET d == last.body.sig
           b == last.body.bands
       IN IF Len(d) >= 72
          THEN /\ Len(b) = 20
               /\ \A i \in 1..20 :
                     b[i] = ToString(i) \o ":" \o SubSeq(d, 8 + 3 * (i - 1) + 1, 8 + 3 * (i - 1) + 6)
          ELSE b = <<>>

\* a digest of exactly 72 characters whose first two bands differ
C31_Witness ==
    /\ last.op = "bands" /\ Len(last.body.sig) = 72
    /\ Len(last.body.bands) = 20
    /\ SubSeq(last.body.bands[1], 3, 8) # SubSeq(last.body.bands[2], 3, 8)

-----------------------------------------------------------------------------
(* C32: the normalizer applied to its own output *)

\* C32 as stated: for every (text, html), normalizing the output of
\* normalizeEmailBody again gives the same string.
C32_Original ==
    last.op = "normalize" => normalizeEmailBody(last.body.out, "") = last.body.out

-----------------------------------------------------------------------------
(* C33: spam reports of near-variants served at the same time *)

\* DA and DB share four bands and lie at distance 30
NearVariants == {DA, DB}
Quiet == \A p \in 1..NProcs : procs[p].pc = "idle"

\* C33 as stated: under every interleaving of accepted spam reports of
\* near-variants, at most one of them (the first learned) is a member of the
\* lg_f:* sets, and once the reports are done its score is the sum of the
\* increments of all of them.
C33_Original ==
    /\ Cardinality(LocalIndex(rdb) \cap NearVariants) <= 1
    /\ (Quiet /\ \A d \in NearVariants : tally.adj[d].ham = 0) =>
          \A d \in LocalIndex(rdb) \cap NearVariants :
             Score(rdb, d) = spamWeight * (tally.adj[DA].spam + tally.adj[DB].spam)

-----------------------------------------------------------------------------
(* C34: what a ham report leaves alone *)

\* this step served a /report of the type that came past the duplicate gate
Served(type) ==
    /\ last'.op = "report" /\ last'.rtype = type
    /\ ~Exists(rdb, ReportKey(last'.id, type))
FragUnchanged(db1, db2) ==
    \A k \in DOMAIN db1 \cup DOMAIN db2 :
       HasPrefix(k, LocalFragPrefix) => k \in DOMAIN db1 /\ k \in DOMAIN db2 /\ db1[k] = db2[k]
Neighbours(db, h) == {b \in BestMatch(db, h) : b.dist <= 70}

\* C34: a ham report changes no lg_f:* key and deletes no lg_s:* key; when no
\* stored signature of the message has a neighbour at distance <= 70 it
\* changes no lg_s:* key either; when one has, the neighbour's score goes
\* down whatever its sign, the neighbour staying in the index; and a spam
\* report raises the score of the target of the first stored signature
\* whatever its sign.
C34_HamFrame ==
    [][/\ Served("ham") =>
            LET hs == Stored(rdb, last'.id)
            IN /\ FragUnchanged(rdb, rdb')
               /\ \A k \in DOMAIN rdb : HasPrefix(k, LocalScorePrefix) => k \in DOMAIN rdb'
               /\ (\A i \in DOMAIN hs : Neighbours(rdb, hs[i]) = {}) => LocalUnchanged(rdb, rdb')
               /\ \A i \in DOMAIN hs :
                     Neighbours(rdb, hs[i]) # {} =>
                        \E b \in Neighbours(rdb, hs[i]) :
                           /\ Score(rdb', b.hash) < Score(rdb, b.hash)
                           /\ b.hash \in LocalIndex(rdb')
       /\ (Served("spam") /\ Stored(rdb, last'.id) # <<>>) =>
            \E b \in BestMatch(rdb, Stored(rdb, last'.id)[1]) :
               Score(rdb', TargetHash(Stored(rdb, last'.id)[1], b))
                  > Score(rdb, TargetHash(Stored(rdb, last'.id)[1], b))]_vars

\* a ham report of M1 that found DA in the index with a score of 0, or with
\* none left, and took it to -2, DA still in the index
C34_Witness ==
    /\ msgs = {M1}
    /\ last.op = "report" /\ last.rtype = "ham" /\ last.id = M1.id /\ Accepted(last)
    /\ Score(rdb, DA) = 0 - 2
    /\ DA \in LocalIndex(rdb)

-----------------------------------------------------------------------------
(* C35: candidates and references that do not parse *)

\* C35: computeDistanceBatch fails exactly when the reference does not parse;
\* otherwise it returns the distance of every candidate that parses, and of
\* no other, whatever malformed candidates the batch holds; and a signature
\* whose digest does not parse gets no spam verdict from the local match.
C35_Batch ==
    /\ last.op = "distances" =>
          LET b == last.body
          IN /\ b.r.err <=> ~ParseOk(b.ref)
             /\ ~b.r.err =>
                   /\ DOMAIN b.r.dist = {d \in b.digests : ParseOk(d)}
                   /\ \A d \in DOMAIN b.r.dist : b.r.dist[d] = Diff(b.ref, d)
    /\ (last.op = "layer3" /\ ~ParseOk(last.body.ts.Hash)) =>
          \A o \in last.body.outs : o.fr.Action = "allow" /\ o.fr.Label = ""

\* a batch with a well-formed reference, a malformed candidate and a
\* well-formed one at distance 30
C35_Witness ==
    /\ last.op = "distances" /\ last.body.ref = DA
    /\ {DB, DT, DB \o "B"} \subseteq last.body.digests
    /\ ~last.body.r.err
    /\ last.body.r.dist[DB] = 30

-----------------------------------------------------------------------------
(* C36: the confidence of a match *)

InHalfToOne(c) == ~FracLess(c, Frac(1, 2)) /\ ~FracLess(Frac(1, 1), c)

\* C36 as stated: for a distance d and a threshold t with 0 <= d <= t the
\* confidence is 1.0 - (d/t)*0.5 and lies in [0.5, 1.0], d = t included; so
\* does the confidence of every local_spam and local_soft verdict.
C36_Original ==
    /\ (last.op = "confidence" /\ last.body.distance <= last.body.threshold) =>
          /\ FracEq(last.body.confidence,
                    Frac(2 * last.body.threshold - last.body.distance, 2 * last.body.threshold))
          /\ InHalfToOne(last.body.confidence)
    /\ last.op = "layer3" =>
          \A o \in last.body.outs :
             o.fr.Label \in {"local_spam", "local_soft"} => InHalfToOne(o.confidence)

-----------------------------------------------------------------------------
(* C37: the duplicate-suppression key of a report that failed *)

Failed(r) == r.op = "report" /\ r.code \in {404, 400, 503}

\* C37: a /report answered 404 (no scan data), 400 (no hashes) or 503 (oracle
\* unreachable) leaves mi:rpt:<sha1(msgid)>:<type> set with its 24 h expiry,
\* and the same report made again right after it is answered 409 and changes
\* nothing.
C37_GateConsumed ==
    [][/\ (Failed(last') /\ last' # last) =>
             /\ Exists(rdb', ReportKey(last'.id, last'.rtype))
             /\ rdb'[ReportKey(last'.id, last'.rtype)].ttl = Ticks(ReportKeyTTL)
       /\ (Failed(last) /\ last'.op = "report" /\ last'.id = last.id
              /\ last'.rtype = last.rtype) =>
             /\ last'.code = 409
             /\ rdb' = rdb]_vars

\* a report answered 409 for a message-id that has no scan record: the key
\* was taken by a report answered 404
C37_Witness ==
    /\ last.op = "report" /\ last.code = 409
    /\ ~Exists(rdb, ScanKey(last.id))
    /\ Exists(rdb, ReportKey(last.id, last.rtype))

-----------------------------------------------------------------------------
(* C38: the scan record and the answer of /analyze *)

PendingFor(id) == {t \in scans : t.id = id}
RecordOf(db, id) == IF Exists(db, ScanKey(id)) THEN <<db[ScanKey(id)]>> ELSE <<>>

\* C38: /analyze answers with the scan record of its message-id as it was,
\* the write left to a task of its own; while that task is pending a /report
\* for the message-id that is past the duplicate gate and finds no record is
\* answered 404; a record is written or rewritten only by a task that ends,
\* and a task whose SET did not get through ends without one.
C38_AsyncScan ==
    [][/\ (last'.op = "analyze" /\ ~last'.whitelisted /\ last' # last) =>
             /\ RecordOf(rdb', last'.id) = RecordOf(rdb, last'.id)
             /\ scans' = scans \cup {[id |-> last'.id, hashes |-> last'.hashes]}
       /\ (last'.op = "report" /\ PendingFor(last'.id) # {}
              /\ ~Exists(rdb, ReportKey(last'.id, last'.rtype))
              /\ ~Exists(rdb, ScanKey(last'.id))) =>
             last'.code = 404 /\ scans' = scans
       /\ \A id \in MsgIds :
             (Exists(rdb', ScanKey(id))
                 /\ (~Exists(rdb, ScanKey(id)) \/ rdb'[ScanKey(id)].v # rdb[ScanKey(id)].v
                        \/ rdb'[ScanKey(id)].ttl > rdb[ScanKey(id)].ttl)) =>
                \E t \in PendingFor(id) :
                   scans' = scans \ {t} /\ rdb' = storeScanResult(rdb, t) /\ last'.op = "none"
       /\ (last'.op = "scan" /\ last' # last) =>
             rdb' = rdb /\ scans' = scans \ {last'.body}]_vars

\* /report answered 404 after the answer of /analyze, the task still pending
C38_Witness ==
    /\ last.op = "report" /\ last.code = 404 /\ last.id = M1.id
    /\ PendingFor(M1.id) # {}
    /\ hist.first[M1.id] # "none"

(***************************************************************************)
(* C39: the running verdict of one analysis                                *)
(***************************************************************************)

\* how far a verdict's action is from allow
Severity(a) == CASE a = "allow" -> 0 [] a = "soft_spam" -> 1 [] a = "spam" -> 2 [] OTHER -> 3

\* the verdict is one of those whose proximity flag the layers set themselves
SetByLayers(r) ==
    \/ r.Action = "soft_spam"
    \/ r.Action = "spam" /\ r.Label \in {"local_spam", "oracle_cache_match"}

\* C39: during one /analyze the running verdict only escalates: after every
\* signature its action is allow, soft_spam or spam, it is never below the
\* action left by the signature before (the first one starting from allow), the
\* response carries the action left by the last signature visited, and a final
\* soft_spam, or a final spam labelled local_spam or oracle_cache_match, has
\* proximity_match true.
C39_Escalates ==
    (last.op = "analyze" /\ ~last.whitelisted) =>
        LET v == last.visits
        IN /\ \A i \in DOMAIN v : v[i].action \in {"allow", "soft_spam", "spam"}
           /\ \A i \in DOMAIN v :
                 Severity(IF i = 1 THEN "allow" ELSE v[i - 1].action) <= Severity(v[i].action)
           /\ last.res.Action = (IF v = <<>> THEN "allow" ELSE v[Len(v)].action)
           /\ SetByLayers(last.res) => last.res.ProximityMatch

\* an analysis of a message of two signatures whose verdict was soft_spam after
\* the first signature, whose second signature went down to the oracle step
\* without a match, and which answered soft_spam with proximity_match
C39_Witness ==
    /\ last.op = "analyze"
    /\ Len(last.visits) = 2
    /\ last.visits[1].action = "soft_spam"
    /\ last.visits[2].layers = <<1, 2, 3, 4>>
    /\ last.res.Action = "soft_spam"
    /\ last.res.ProximityMatch

(***************************************************************************)
(* C40: what an analysis leaves in the store                               *)
(***************************************************************************)

\* the keys whose entry (value or time to live) differs between two stores
Touched(a, b) ==
    {k \in DOMAIN a \cup DOMAIN b : k \notin DOMAIN a \/ k \notin DOMAIN b \/ a[k] # b[k]}

\* k is a cache entry that the oracle's answer c makes the node write
CachedFor(c, k) ==
    /\ ~c.err
    /\ c.answer # ""
    /\ \/ k = OracleCacheKey(c.sig)
       \/ c.answer = "spam" /\ k \in {OracleCacheFragPrefix \o b : b \in Bands(c.sig)}

\* C40: /analyze never changes the local learning content.  In the step that
\* answers an analysis no lg_s:* entry changes, an lg_f:* key that changes
\* existed before, keeps its members, is a band key matched by a signature of
\* the message and only has its time to live set back to the retention; every
\* other key that changes is the exact or band cache entry of a signature for
\* which the oracle was asked in this analysis and answered.  The step that
\* ends the scan task of an analysis changes nothing but that analysis's
\* mi:msgid record.
C40_AnalyzeFrame ==
    [][ /\ last'.op = "analyze" =>
             \A k \in Touched(rdb, rdb') :
                \/ /\ HasPrefix(k, LocalFragPrefix)
                   /\ k \in DOMAIN rdb /\ k \in DOMAIN rdb'
                   /\ rdb'[k].v = rdb[k].v
                   /\ rdb'[k].ttl = Ticks(localRetentionDuration)
                   /\ \E i \in DOMAIN last'.hashes :
                         k \in MatchedKeys(rdb, LocalFragPrefix, last'.hashes[i])
                \/ \E i \in DOMAIN last'.oracle : CachedFor(last'.oracle[i], k)
        /\ (last'.op # "analyze" /\ scans' # scans /\ scans' \subseteq scans) =>
             Touched(rdb, rdb') \subseteq {ScanKey(t.id) : t \in scans \ scans'}
      ]_vars

\* an analysis made after the learning had aged: the oracle answered spam for
\* one signature and the answer is cached; a matched lg_f band key is back at
\* the full retention while the score of its member kept its shorter time
C40_Witness ==
    /\ last.op = "analyze"
    /\ \E i \in DOMAIN last.oracle :
          /\ last.oracle[i].answer = "spam"
          /\ Exists(rdb, OracleCacheKey(last.oracle[i].sig))
    /\ \E i \in DOMAIN last.hashes :
          \E k \in MatchedKeys(rdb, LocalFragPrefix, last.hashes[i]) :
             /\ rdb[k].ttl = Ticks(localRetentionDuration)
             /\ \E h \in rdb[k].v :
                   /\ Exists(rdb, LocalScorePrefix \o h)
                   /\ rdb[LocalScorePrefix \o h].ttl # NoTTL
                   /\ rdb[LocalScorePrefix \o h].ttl < Ticks(localRetentionDuration)

====
